---- MODULE Spec2Model ----
(***************************************************************************)
(* A model of the MCP SDK's protocol engine (src/mcp_sdk): the JSON-RPC    *)
(* message codec (core/message.cpp, core/error.cpp), the server's message  *)
(* loop (server/server.cpp) and the stdio transport it runs on             *)
(* (transport/stdio_transport.cpp, utils/logger.cpp).                      *)
(*                                                                         *)
(* JSON values are records tagged by their type.  A JSON integer is a      *)
(* 64-bit number (nlohmann's number_integer_t / number_unsigned_t) kept as *)
(* two 32-bit words, hi * 2^32 + lo, so that get<int>() can be modelled as *)
(* what it does: it keeps the low word.                                    *)
(***************************************************************************)
EXTENDS Integers, Sequences, FiniteSets, TLC

VARIABLES
    running,       \* MCPServer::running_
    initialized,   \* MCPServer::initialized_
    connected,     \* StdioTransport::connected_
    reading,       \* StdioTransport::running_
    tools,         \* ToolRegistry::tools_ (names)
    resources,     \* ResourceRegistry::resources_ (uris)
    prompts,       \* PromptRegistry::prompts_ (names)
    pc,            \* position of the transport's read thread
    joining,       \* the caller of stop() is blocked in read_thread_.join()
    cur,           \* the line the read thread has taken from stdin
    out,           \* the lines the latest operation wrote to std::cout
    last,          \* history: the latest handleMessage call, what it saw and wrote
    seen,          \* history: this session has answered an initialize request
    wireErr,       \* history: the line this session handled last was a wire error
    adv,           \* history: the capabilities both sides advertised in the latest handshake
    msg,           \* codec: a message object (Request, Response or Notification)
    calls,         \* codec: the constructor and setters called on msg, in order
    wire,          \* codec: the latest document decoded, its outcome and re-encoding
    counter,       \* MCPClient::request_id_counter_
    pending,       \* MCPClient::pending_requests_: request id -> handle
    handles,       \* the promise / future pairs sendRequest has created, in order
    cinit,         \* MCPClient::initialized_
    cconn,         \* the client transport's connected_
    cread,         \* the client transport's running_
    rpc,           \* position of the client transport's read thread
    rcur,          \* the line the client's read thread has taken from stdin
    snd,           \* position of each caller thread inside sendRequest
    cjoin,         \* the caller of disconnect() is blocked in read_thread_.join()
    crashed,       \* the client process has been terminated
    cout,          \* the lines the client's latest operation wrote to std::cout
    clast,         \* history: the latest MCPClient::handleMessage call
    tasks,         \* task engine: the Tasks created for inbound requests, in order
    inboundActive, \* task engine: InboundActive, request id -> Task
    pump,          \* task engine: the responses handed to the notification pump
    note,          \* task engine: the latest notifications/cancelled handled
    tp,            \* a transport object: its variant, flags, handle and thread
    tlast,         \* history: the latest call made on the transport
    sse,           \* SSE reader: the byte stream, how far it was received, the event buffer and the frames delivered
    ec,            \* error codes: an integer, the ErrorCode it converts to and the integer that converts back to
    pool           \* utils::ThreadPool: stop_, tasks_, workers_, pending notifications

serverVars == <<running, initialized, connected, reading, tools, resources,
                prompts, pc, joining, cur, out, last, seen, wireErr, adv>>
vars == <<running, initialized, connected, reading, tools, resources,
          prompts, pc, joining, cur, out, last, seen, wireErr, adv,
          msg, calls, wire,
          counter, pending, handles, cinit, cconn, cread, rpc, rcur, snd,
          cjoin, crashed, cout, clast,
          tasks, inboundActive, pump, note,
          tp, tlast,
          sse,
          ec,
          pool>>
codecVars == <<msg, calls>>
wireVars == <<wire>>
clientVars == <<counter, pending, handles, cinit, cconn, cread, rpc, rcur, snd,
                cjoin, crashed, cout, clast>>
taskVars == <<tasks, inboundActive, pump, note>>
transportVars == <<tp, tlast>>
sseVars == <<sse>>
errorVars == <<ec>>
poolVars == <<pool>>
\* what the operations of one component leave alone
nonServerVars == <<codecVars, wireVars, clientVars, taskVars, transportVars, sseVars, errorVars, poolVars>>
nonCodecVars == <<serverVars, wireVars, clientVars, taskVars, transportVars, sseVars, errorVars, poolVars>>
nonWireVars == <<serverVars, codecVars, clientVars, taskVars, transportVars, sseVars, errorVars, poolVars>>
nonClientVars == <<serverVars, codecVars, wireVars, taskVars, transportVars, sseVars, errorVars, poolVars>>
nonTaskVars == <<serverVars, codecVars, wireVars, clientVars, transportVars, sseVars, errorVars, poolVars>>
nonTransportVars == <<serverVars, codecVars, wireVars, clientVars, taskVars, sseVars, errorVars, poolVars>>
nonSseVars == <<serverVars, codecVars, wireVars, clientVars, taskVars, transportVars, errorVars, poolVars>>
nonErrorVars == <<serverVars, codecVars, wireVars, clientVars, taskVars, transportVars, sseVars, poolVars>>
nonPoolVars == <<serverVars, codecVars, wireVars, clientVars, taskVars, transportVars, sseVars, errorVars>>

----------------------------------------------------------------------------
(* Bounds *)

\* number of setter calls made on one message object
MaxCalls == 2

\* number of sendRequest calls made on one client
MaxSends == 2

\* number of Tasks created, of requests rejected and of cancellations handled
\* in one session of the task engine
MaxTasks == 2

\* number of events on an SSE stream
MaxEvents == 2

\* largest number of bytes libcurl hands over in one chunk
MaxChunk == 9

\* how far beyond the error code constants the integers converted reach
CodeSpan == 10

\* largest number of worker threads a thread pool is constructed with
MaxThreads == 2

\* number of tasks one thread pool accepts
MaxJobs == 2

----------------------------------------------------------------------------
(* JSON values (nlohmann::json) *)

Absent == [t |-> "absent"]
JNull == [t |-> "null"]
JInt(hi, lo) == [t |-> "int", hi |-> hi, lo |-> lo]
JStr(s) == [t |-> "str", s |-> s]
JBool(b) == [t |-> "bool", b |-> b]
JFloat == [t |-> "float"]
JObj(o) == [t |-> "obj", o |-> o]
JArr(a) == [t |-> "arr", a |-> a]
EmptyObject == JObj(<<>>)

\* json.contains(key): false on anything that is not an object
Contains(j, k) == j.t = "obj" /\ k \in DOMAIN j.o
\* json[key] on an object that contains key
At(j, k) == j.o[k]
\* adds or overwrites member k of object members o
With(o, k, v) == (k :> v) @@ o

\* a line of text: either not a JSON document at all, or one JSON value
NotJson == [wf |-> FALSE]
Line(v) == [wf |-> TRUE, v |-> v]

----------------------------------------------------------------------------
(* RequestId (include/mcp/types_simple.hpp) and std::optional *)

IdNull == [t |-> "null"]
IdInt(n) == [t |-> "int", n |-> n]
IdStr(s) == [t |-> "str", s |-> s]

None == [has |-> FALSE]
Some(v) == [has |-> TRUE, v |-> v]

\* json.get<int>() of a JSON integer: static_cast<int> keeps the low word
GetInt(j) == j.lo

\* json = int: a 32-bit int widens (sign-extends) to the 64-bit JSON integer
FromInt(n) == JInt(IF n < 0 THEN -1 ELSE 0, n)

----------------------------------------------------------------------------
(* ErrorCode and MCPError (include/mcp/error_simple.hpp, core/error.cpp) *)

ErrorCodes == {"ParseError", "InvalidRequest", "MethodNotFound", "InvalidParams",
               "InternalError", "InvalidMethod", "ResourceNotFound",
               "ResourceNotAvailable", "ResourceExhausted", "ContentModified",
               "UnknownErrorCode"}

\* static_cast<int>(ErrorCode): the enumerators' values
ErrorCodeValue(code) ==
    CASE code = "ParseError" -> -32700
      [] code = "InvalidRequest" -> -32600
      [] code = "MethodNotFound" -> -32601
      [] code = "InvalidParams" -> -32602
      [] code = "InternalError" -> -32603
      [] code = "InvalidMethod" -> -32604
      [] code = "ResourceNotFound" -> -32606
      [] code = "ResourceNotAvailable" -> -32607
      [] code = "ResourceExhausted" -> -32608
      [] code = "ContentModified" -> -32609
      [] OTHER -> -32000

errorCodeFromInt(n) ==
    CASE n = -32700 -> "ParseError"
      [] n = -32600 -> "InvalidRequest"
      [] n = -32601 -> "MethodNotFound"
      [] n = -32602 -> "InvalidParams"
      [] n = -32603 -> "InternalError"
      [] n = -32604 -> "InvalidMethod"
      [] n = -32606 -> "ResourceNotFound"
      [] n = -32607 -> "ResourceNotAvailable"
      [] n = -32608 -> "ResourceExhausted"
      [] n = -32609 -> "ContentModified"
      [] OTHER -> "UnknownErrorCode"

errorCodeToInt(code) ==
    CASE code = "ParseError" -> -32700
      [] code = "InvalidRequest" -> -32600
      [] code = "MethodNotFound" -> -32601
      [] code = "InvalidParams" -> -32602
      [] code = "InternalError" -> -32603
      [] code = "InvalidMethod" -> -32604
      [] code = "ResourceNotFound" -> -32606
      [] code = "ResourceNotAvailable" -> -32607
      [] code = "ResourceExhausted" -> -32608
      [] code = "ContentModified" -> -32609
      [] OTHER -> -32000

\* the constants of the error module: JSON_RPC_PARSE_ERROR, JSON_RPC_INVALID_REQUEST
\* to JSON_RPC_INTERNAL_ERROR, and MCP_INVALID_METHOD, MCP_INVALID_PARAMS,
\* MCP_RESOURCE_NOT_FOUND, MCP_RESOURCE_NOT_AVAILABLE, MCP_RESOURCE_EXHAUSTED,
\* MCP_CONTENT_MODIFIED
ErrorConstants ==
    {-32700, -32600, -32601, -32602, -32603,
     -32604, -32605, -32606, -32607, -32608, -32609}

\* MCPError(code, message, data); data defaults to null
MCPError(code, message) == [code |-> code, message |-> message, data |-> JNull]

\* MCPError::toJson
MCPError_toJson(e) ==
    LET base == [code |-> FromInt(ErrorCodeValue(e.code)), message |-> JStr(e.message)]
    IN JObj(IF e.data # JNull THEN With(base, "data", e.data) ELSE base)

\* the outcome of a call that may throw
Returned(v) == [ok |-> TRUE, v |-> v]
\* throw MCPError(code, message)
Threw(code, message) == [ok |-> FALSE, mcp |-> TRUE, e |-> MCPError(code, message)]
\* throw of a std::exception that is not an MCPError
ThrewStd(what) == [ok |-> FALSE, mcp |-> FALSE, what |-> what]

----------------------------------------------------------------------------
(* Messages (core/message.cpp) *)

\* Request(id, method, params): Message(id) stores the id in the optional id_
Request(id, method, params) ==
    [kind |-> "Request", id |-> Some(id), method |-> method, params |-> params]

\* Response(id, result)
ResponseResult(id, result) ==
    [kind |-> "Response", id |-> Some(id), result |-> result, error |-> None]

\* Response(id, error): result_ is an empty object
ResponseError(id, e) ==
    [kind |-> "Response", id |-> Some(id), result |-> EmptyObject, error |-> Some(e)]

\* Response(): no id, result_ an empty object
ResponseDefault ==
    [kind |-> "Response", id |-> None, result |-> EmptyObject, error |-> None]

\* Notification(method, params): Message() leaves id_ empty
Notification(method, params) ==
    [kind |-> "Notification", id |-> None, method |-> method, params |-> params]

Response_setResult(r, result) == [r EXCEPT !.result = result, !.error = None]

Response_setError(r, e) == [r EXCEPT !.error = Some(e), !.result = EmptyObject]

\* the "id" member serialize() writes: only an int or a string id is written
WithId(o, id) ==
    IF id.has /\ id.v.t = "int" THEN With(o, "id", FromInt(id.v.n))
    ELSE IF id.has /\ id.v.t = "str" THEN With(o, "id", JStr(id.v.s))
    ELSE o

WithParams(o, params) == IF params # JNull THEN With(o, "params", params) ELSE o

Request_serialize(r) ==
    Line(JObj(WithParams(
        WithId([jsonrpc |-> JStr("2.0"), method |-> JStr(r.method)], r.id),
        r.params)))

\* a serialize() that writes the result member whether or not an error is set
Response_serialize_both(r) ==
    LET o == With(WithId([jsonrpc |-> JStr("2.0")], r.id), "result", r.result)
    IN Line(JObj(IF r.error.has
                 THEN With(o, "error", MCPError_toJson(r.error.v))
                 ELSE o))

Response_serialize(r) ==
    LET o == WithId([jsonrpc |-> JStr("2.0")], r.id)
    IN Line(JObj(IF r.error.has
                 THEN With(o, "error", MCPError_toJson(r.error.v))
                 ELSE With(o, "result", r.result)))

Notification_serialize(n) ==
    Line(JObj(WithParams([jsonrpc |-> JStr("2.0"), method |-> JStr(n.method)],
                         n.params)))

\* !json.contains("jsonrpc") || json["jsonrpc"] != "2.0"
BadVersion(j) == ~Contains(j, "jsonrpc") \/ At(j, "jsonrpc") # JStr("2.0")

\* json.contains("params") ? json["params"] : nlohmann::json::object()
ParamsOf(j) == IF Contains(j, "params") THEN At(j, "params") ELSE EmptyObject

Request_deserialize(line) ==
    IF ~line.wf THEN Threw("ParseError", "Failed to parse JSON")
    ELSE LET j == line.v IN
      IF BadVersion(j) THEN Threw("InvalidRequest", "Invalid JSON-RPC version")
      ELSE IF ~Contains(j, "method") THEN Threw("InvalidRequest", "Missing method")
      ELSE IF Contains(j, "id") /\ At(j, "id").t \notin {"int", "str"}
           THEN Threw("InvalidRequest", "Invalid id type")
      ELSE IF At(j, "method").t # "str" THEN Threw("ParseError", "Failed to parse JSON")
      ELSE LET id == IF ~Contains(j, "id") THEN IdNull
                     ELSE IF At(j, "id").t = "int" THEN IdInt(GetInt(At(j, "id")))
                     ELSE IdStr(At(j, "id").s)
           IN Returned(Request(id, At(j, "method").s, ParamsOf(j)))

Response_deserialize(line) ==
    IF ~line.wf THEN Threw("ParseError", "Failed to parse JSON")
    ELSE LET j == line.v IN
      IF BadVersion(j) THEN Threw("InvalidRequest", "Invalid JSON-RPC version")
      ELSE LET id == IF Contains(j, "id") /\ At(j, "id").t = "int"
                        THEN IdInt(GetInt(At(j, "id")))
                     ELSE IF Contains(j, "id") /\ At(j, "id").t = "str"
                        THEN IdStr(At(j, "id").s)
                     ELSE IdNull
           IN IF Contains(j, "error")
              THEN LET ej == At(j, "error") IN
                   IF ~Contains(ej, "code") \/ At(ej, "code").t # "int"
                      \/ (Contains(ej, "message") /\ At(ej, "message").t # "str")
                   THEN Threw("ParseError", "Failed to parse JSON")
                   ELSE Returned(ResponseError(id,
                          [code |-> errorCodeFromInt(GetInt(At(ej, "code"))),
                           message |-> IF Contains(ej, "message")
                                       THEN At(ej, "message").s ELSE "",
                           data |-> IF Contains(ej, "data")
                                    THEN At(ej, "data") ELSE EmptyObject]))
              ELSE IF Contains(j, "result")
                   THEN Returned(ResponseResult(id, At(j, "result")))
                   ELSE Threw("InvalidRequest", "Missing result or error")

Notification_deserialize(line) ==
    IF ~line.wf THEN Threw("ParseError", "Failed to parse JSON")
    ELSE LET j == line.v IN
      IF BadVersion(j) THEN Threw("InvalidRequest", "Invalid JSON-RPC version")
      ELSE IF ~Contains(j, "method") THEN Threw("InvalidRequest", "Missing method")
      ELSE IF Contains(j, "id") THEN Threw("InvalidRequest", "Notifications cannot have id")
      ELSE IF At(j, "method").t # "str" THEN Threw("ParseError", "Failed to parse JSON")
      ELSE Returned(Notification(At(j, "method").s, ParamsOf(j)))

\* serialize() / deserialize() of the message's own class
Serialize(m) ==
    CASE m.kind = "Request" -> Request_serialize(m)
      [] m.kind = "Response" -> Response_serialize(m)
      [] m.kind = "Notification" -> Notification_serialize(m)

Deserialize(kind, line) ==
    CASE kind = "Request" -> Request_deserialize(line)
      [] kind = "Response" -> Response_deserialize(line)
      [] kind = "Notification" -> Notification_deserialize(line)

\* no document has been decoded yet
NoDecode == [kind |-> "none"]

----------------------------------------------------------------------------
(* Logger (utils/logger.cpp): the global logger writes to std::cout *)

LevelRank(level) ==
    CASE level = "TRACE" -> 0
      [] level = "DEBUG" -> 1
      [] level = "INFO" -> 2
      [] level = "WARN" -> 3
      [] level = "ERROR" -> 4
      [] level = "FATAL" -> 5

\* static Logger global_logger(LogLevel::INFO)
LoggerLevel == "INFO"

LogLine(level, text) == [k |-> "log", level |-> level, text |-> text]

\* Logger::log: the lines it adds to std::cout
Log(level, text) ==
    IF LevelRank(level) < LevelRank(LoggerLevel) THEN <<>> ELSE <<LogLine(level, text)>>

----------------------------------------------------------------------------
(* StdioTransport (transport/stdio_transport.cpp) *)

FrameLine(line) == [k |-> "frame", line |-> line]

StdioTransport_isConnected(conn, rd) == conn /\ rd

\* StdioTransport::write: whether it returns true, and the lines it adds to std::cout
StdioTransport_write(conn, rd, data) ==
    IF ~StdioTransport_isConnected(conn, rd)
    THEN [ok |-> FALSE, lines |-> <<>>]
    ELSE [ok |-> TRUE, lines |-> <<FrameLine(data)>>]

----------------------------------------------------------------------------
(* Registries and request handlers (server/server.cpp, tools/tools.cpp,    *)
(* resources/resources.cpp, prompts/prompts.cpp)                           *)

ToolNames == {"echo"}
ResourceUris == {"file:///a"}
PromptNames == {"greet"}

\* what a registered handler (user code) does when called: it returns its
\* result, it reports an error of its own as the tools of tools.cpp do
\* (throw std::invalid_argument("Division by zero")), or an exception escapes
\* from a fault inside it
HandlerOutcomes == {"returns", "fails", "throws"}

ServerName == "s"
ServerVersion == "1"

\* the elements of a set of names as an array of descriptors
RECURSIVE Descriptors(_, _)
Descriptors(S, key) ==
    IF S = {} THEN <<>>
    ELSE LET x == CHOOSE y \in S : TRUE
         IN <<JObj((key :> JStr(x)))>> \o Descriptors(S \ {x}, key)

\* params["name"].get<std::string>() and the like: a type_error is a std::exception
GetString(j, k) ==
    IF At(j, k).t = "str" THEN Returned(At(j, k).s) ELSE ThrewStd("type_error")

\* it->second.handler(arguments) inside try / catch (const std::exception&)
CallHandler(h, result, what) ==
    IF h = "returns" THEN Returned(result) ELSE Threw("InternalError", what)

handleInitialize(params) ==
    IF ~Contains(params, "clientInfo") THEN Threw("InvalidParams", "Missing clientInfo")
    ELSE IF ~Contains(At(params, "clientInfo"), "name")
            \/ ~Contains(At(params, "clientInfo"), "version")
         THEN Threw("InvalidParams", "Invalid clientInfo")
    ELSE LET c0 == <<>>
             c1 == IF tools # {} THEN With(c0, "tools", EmptyObject) ELSE c0
             c2 == IF resources # {} THEN With(c1, "resources", EmptyObject) ELSE c1
             c3 == IF prompts # {} THEN With(c2, "prompts", EmptyObject) ELSE c2
             \* a nlohmann::json that was never assigned a member is null
             capabilities == IF c3 = <<>> THEN JNull ELSE JObj(c3)
         IN Returned(JObj([protocolVersion |-> JStr("2024-11-05"),
                           capabilities |-> capabilities,
                           serverInfo |-> JObj([name |-> JStr(ServerName),
                                                version |-> JStr(ServerVersion)])]))

ToolRegistry_callTool(name, arguments, h) ==
    IF name \notin tools THEN Threw("MethodNotFound", "Tool not found")
    ELSE CallHandler(h, JObj([echo |-> arguments]), "Tool execution error")

handleToolCall(params, h) ==
    IF ~Contains(params, "name") THEN Threw("InvalidParams", "Missing tool name")
    ELSE LET name == GetString(params, "name")
             arguments == IF Contains(params, "arguments")
                          THEN At(params, "arguments") ELSE EmptyObject
         IN IF ~name.ok THEN name ELSE ToolRegistry_callTool(name.v, arguments, h)

handleToolsList(params) ==
    Returned(JObj([tools |-> JArr(Descriptors(tools, "name"))]))

ResourceRegistry_readResource(uri, h) ==
    IF uri \notin resources THEN Threw("ResourceNotFound", "Resource not found")
    ELSE CallHandler(h, JObj([uri |-> JStr(uri)]), "Resource read error")

handleResourceRead(params, h) ==
    IF ~Contains(params, "uri") THEN Threw("InvalidParams", "Missing resource URI")
    ELSE LET uri == GetString(params, "uri")
         IN IF ~uri.ok THEN uri ELSE ResourceRegistry_readResource(uri.v, h)

handleResourcesList(params) ==
    Returned(JObj([resources |-> JArr(Descriptors(resources, "uri"))]))

PromptRegistry_getPrompt(name, arguments, h) ==
    IF name \notin prompts THEN Threw("MethodNotFound", "Prompt not found")
    ELSE CallHandler(h, JObj([messages |-> JArr(<<>>)]), "Prompt execution error")

handlePromptGet(params, h) ==
    IF ~Contains(params, "name") THEN Threw("InvalidParams", "Missing prompt name")
    ELSE LET name == GetString(params, "name")
             arguments == IF Contains(params, "arguments")
                          THEN At(params, "arguments") ELSE EmptyObject
         IN IF ~name.ok THEN name ELSE PromptRegistry_getPrompt(name.v, arguments, h)

handlePromptsList(params) ==
    Returned(JObj([prompts |-> JArr(Descriptors(prompts, "name"))]))

\* the if / else-if chain of handleRequest: the handler's result or what it throws
Dispatch(method, params, h) ==
    CASE method = "initialize" -> handleInitialize(params)
      [] method = "tools/call" -> handleToolCall(params, h)
      [] method = "tools/list" -> handleToolsList(params)
      [] method = "resources/read" -> handleResourceRead(params, h)
      [] method = "resources/list" -> handleResourcesList(params)
      [] method = "prompts/get" -> handlePromptGet(params, h)
      [] method = "prompts/list" -> handlePromptsList(params)
      [] OTHER -> Threw("MethodNotFound", "Method not found")

\* MCPServer::handleRequest: the lines it adds to std::cout
handleRequest(request, h) ==
    LET id == request.id.v
        d == Dispatch(request.method, request.params, h)
        internal(what) == Response_serialize(ResponseError(id, MCPError("InternalError", what)))
    IN IF d.ok
       THEN LET w == StdioTransport_write(connected, reading,
                                          Response_serialize(ResponseResult(id, d.v)))
            IN IF w.ok
               THEN w.lines \o Log("DEBUG", "Handled request")
               \* write failed: runtime_error, caught as std::exception
               ELSE w.lines \o StdioTransport_write(connected, reading,
                                   internal("Internal error: Failed to send response")).lines
       ELSE IF d.mcp
       THEN StdioTransport_write(connected, reading,
                                 Response_serialize(ResponseError(id, d.e))).lines
       ELSE StdioTransport_write(connected, reading, internal("Internal error")).lines

\* MCPServer::handleNotification: the new initialized_ and the lines added to std::cout
handleNotification(notification) ==
    IF notification.method = "notifications/initialized"
    THEN [initialized |-> TRUE,
          lines |-> Log("INFO", "Client initialized") \o Log("DEBUG", "Received notification")]
    ELSE [initialized |-> initialized,
          lines |-> Log("DEBUG", "Received notification")]

\* what handleMessage leaves behind: the server's flags, the transport's flags
\* and the lines added to std::cout
Effect(init, lines) ==
    [initialized |-> init, running |-> running, connected |-> connected,
     reading |-> reading, lines |-> lines]

\* a handleMessage that disconnects the transport when the line cannot be decoded
handleMessage_closing(message, h) ==
    LET request == Request_deserialize(message) IN
    IF ~request.ok
    THEN [Effect(initialized, Log("ERROR", "Failed to handle message"))
            EXCEPT !.connected = FALSE, !.reading = FALSE]
    ELSE Effect(initialized, handleRequest(request.v, h))

\* MCPServer::handleMessage
handleMessage(message, h) ==
    LET request == Request_deserialize(message) IN
    IF ~request.ok
    THEN Effect(initialized, Log("ERROR", "Failed to handle message"))
    ELSE IF request.v.id.has
    THEN Effect(initialized, handleRequest(request.v, h))
    ELSE LET notification == Notification_deserialize(message) IN
         IF ~notification.ok
         THEN Effect(initialized, Log("ERROR", "Failed to handle message"))
         ELSE LET n == handleNotification(notification.v)
              IN Effect(n.initialized, n.lines)

\* MCPServer::handleMessage: the handler the message is passed to
handleMessage_route(message) ==
    LET request == Request_deserialize(message) IN
    IF ~request.ok THEN "rejected"
    ELSE IF request.v.id.has THEN "handleRequest"
    ELSE IF Notification_deserialize(message).ok THEN "handleNotification"
    ELSE "rejected"

----------------------------------------------------------------------------
(* The lines a peer puts on the server's stdin *)

\* a JSON object with the given members; Absent leaves the member out
Doc(version, id, method, params) ==
    LET o0 == <<>>
        o1 == IF version # Absent THEN With(o0, "jsonrpc", version) ELSE o0
        o2 == IF id # Absent THEN With(o1, "id", id) ELSE o1
        o3 == IF method # Absent THEN With(o2, "method", method) ELSE o2
        o4 == IF params # Absent THEN With(o3, "params", params) ELSE o3
    IN Line(JObj(o4))

V2 == JStr("2.0")
ClientInfo == JObj([name |-> JStr("c"), version |-> JStr("1")])
InitializeParams ==
    JObj([protocolVersion |-> JStr("2024-11-05"), clientInfo |-> ClientInfo,
          capabilities |-> EmptyObject])

\* initialize parameters of a client that speaks only a revision the server
\* does not know
InitializeParamsOther ==
    JObj([protocolVersion |-> JStr("2025-06-18"), clientInfo |-> ClientInfo,
          capabilities |-> JObj([tools |-> EmptyObject])])

\* PROTOCOL_VERSION: the one revision this SDK speaks
PROTOCOL_VERSION == "2024-11-05"

\* 2^32 + 1, an integer id outside the range of int
BigId == JInt(1, 1)

RequestLines ==
    { Doc(V2, FromInt(1), JStr("initialize"), InitializeParams),
      Doc(V2, FromInt(1), JStr("initialize"), InitializeParamsOther),
      Doc(V2, FromInt(1), JStr("initialize"), EmptyObject),
      Doc(V2, FromInt(1), JStr("ping"), Absent),
      Doc(V2, FromInt(2), JStr("tools/list"), Absent),
      Doc(V2, FromInt(2), JStr("tools/call"), JObj([name |-> JStr("echo")])),
      Doc(V2, FromInt(2), JStr("tools/call"), JObj([name |-> FromInt(7)])),
      Doc(V2, FromInt(1), JStr("nope"), Absent),
      Doc(V2, JStr("a"), JStr("nope"), Absent),
      Doc(V2, BigId, JStr("nope"), Absent) }

NotificationLines ==
    { Doc(V2, Absent, JStr("notifications/initialized"), Absent),
      Doc(V2, Absent, JStr("notifications/cancelled"), JObj([requestId |-> FromInt(1)])) }

\* a truncated document, and envelopes of no valid shape
MalformedLines ==
    { NotJson,
      Doc(JStr("1.0"), FromInt(1), JStr("ping"), Absent),
      Doc(V2, JFloat, JStr("ping"), Absent),
      Doc(V2, FromInt(1), Absent, Absent) }

StdinLines == RequestLines \cup NotificationLines \cup MalformedLines

----------------------------------------------------------------------------
(* The client after construction (client/client.cpp) *)

\* no line has been handled yet
NoCall == [called |-> FALSE]

\* the threads of the application that call the client
Callers == {"t1", "t2"}

\* a caller thread that is not inside sendRequest
Idle == [pc |-> "idle"]

\* MCPClient::MCPClient with a StdioTransport
MCPClient_constructed ==
    /\ counter = 0 /\ pending = <<>> /\ handles = <<>>
    /\ cinit = FALSE /\ cconn = FALSE /\ cread = FALSE
    /\ rpc = "none" /\ rcur = NotJson
    /\ snd = [t \in Callers |-> Idle]
    /\ cjoin = FALSE /\ crashed = FALSE
    /\ cout = <<>> /\ clast = NoCall

\* the task engine of a new session: no Task, nothing enqueued, no cancellation
TaskEngine_created ==
    /\ tasks = <<>> /\ inboundActive = <<>> /\ pump = <<>>
    /\ note = [n |-> 0]

\* the transport classes: the four of mcp_sdk/src/transport and the one of
\* Source/Protocol/Transport
Variants == {"StdioTransport", "HttpTransport", "SseTransport",
             "WebSocketTransport", "CHttpSseTransport"}

\* the constructors: connected_(false), running_(false), curl_(nullptr), no
\* thread started; CHttpSseTransport keeps one flag, m_connected{false}, held
\* in connected_.  closed is history: disconnect was called since the last
\* successful connect
Transport(variant) ==
    [variant |-> variant, connected_ |-> FALSE, running_ |-> FALSE,
     curl_ |-> FALSE, thread |-> "none", joining |-> FALSE, closed |-> FALSE]

NoTransportCall == [op |-> "none"]

Transport_unused == tp = Transport("StdioTransport") /\ tlast = NoTransportCall

\* an SSE byte stream of which nothing has been received: WriteCallback callback
\* with its data empty
SseReader(events, stream) ==
    [events |-> events, stream |-> stream, pos |-> 0, data |-> <<>>, frames |-> <<>>]

SseStream_unread == sse = SseReader(<<>>, <<>>)

\* an integer code nothing has been converted from yet
ErrorCode_unconverted == ec = [stage |-> "int", n |-> 0]

\* a worker thread of the pool: where it is in its loop and the task it holds
Worker(at, task) == [at |-> at, task |-> task]

\* ThreadPool::ThreadPool(numThreads): stop_ is false, the queue is empty and
\* numThreads workers have been started, each about to lock queue_mutex_
ThreadPool(numThreads) ==
    [stop_ |-> FALSE, tasks_ |-> <<>>,
     workers_ |-> [w \in 1..numThreads |-> Worker("check", 0)],
     notifyOne |-> 0, notifyAll |-> FALSE,
     accepted |-> 0, refused |-> FALSE, began |-> <<>>, ended |-> {},
     atStop |-> FALSE, asleepAtStop |-> FALSE, waiter |-> "none"]

ThreadPool_idle == pool = ThreadPool(1)

----------------------------------------------------------------------------
(* The server's operations *)

\* MCPServer::start, with StdioTransport::connect
Start ==
    /\ ~joining
    /\ ~running
    /\ IF connected
       THEN UNCHANGED <<connected, reading, pc>>
       ELSE connected' = TRUE /\ reading' = TRUE /\ pc' = "loop"
    /\ running' = TRUE
    /\ out' = Log("INFO", "MCP Server started")
    /\ seen' = FALSE
    /\ adv' = {}
    /\ wireErr' = FALSE
    /\ UNCHANGED <<initialized, tools, resources, prompts, joining, cur, last>>
    /\ UNCHANGED nonServerVars

\* MCPServer::stop, with StdioTransport::disconnect up to read_thread_.join()
Stop ==
    /\ ~joining
    /\ running' = FALSE
    /\ reading' = FALSE
    /\ connected' = FALSE
    /\ IF pc = "none"
       THEN joining' = FALSE /\ out' = Log("INFO", "MCP Server stopped")
       ELSE joining' = TRUE /\ out' = <<>>
    /\ UNCHANGED <<initialized, tools, resources, prompts, pc, cur, last, seen, wireErr, adv>>
    /\ UNCHANGED nonServerVars

\* read_thread_.join() returns once the read thread has left its loop
StopJoined ==
    /\ joining
    /\ pc = "exited"
    /\ pc' = "none"
    /\ joining' = FALSE
    /\ out' = Log("INFO", "MCP Server stopped")
    /\ UNCHANGED <<running, initialized, connected, reading, tools, resources,
                   prompts, cur, last, seen, wireErr, adv>>
    /\ UNCHANGED nonServerVars

\* MCPServer::registerTool, with ToolRegistry::registerTool
RegisterTool(name) ==
    /\ ~joining
    /\ tools' = tools \cup {name}
    /\ out' = (IF name \in tools THEN Log("WARN", "Overwriting existing tool") ELSE <<>>)
              \o Log("INFO", "Registered tool")
    /\ UNCHANGED <<running, initialized, connected, reading, resources, prompts,
                   pc, joining, cur, last, seen, wireErr, adv>>
    /\ UNCHANGED nonServerVars

\* MCPServer::registerResource, with ResourceRegistry::registerResource
RegisterResource(uri) ==
    /\ ~joining
    /\ resources' = resources \cup {uri}
    /\ out' = (IF uri \in resources THEN Log("WARN", "Overwriting existing resource")
               ELSE <<>>)
              \o Log("INFO", "Registered resource")
    /\ UNCHANGED <<running, initialized, connected, reading, tools, prompts,
                   pc, joining, cur, last, seen, wireErr, adv>>
    /\ UNCHANGED nonServerVars

\* MCPServer::registerPrompt, with PromptRegistry::registerPrompt
RegisterPrompt(name) ==
    /\ ~joining
    /\ prompts' = prompts \cup {name}
    /\ out' = (IF name \in prompts THEN Log("WARN", "Overwriting existing prompt")
               ELSE <<>>)
              \o Log("INFO", "Registered prompt")
    /\ UNCHANGED <<running, initialized, connected, reading, tools, resources,
                   pc, joining, cur, last, seen, wireErr, adv>>
    /\ UNCHANGED nonServerVars

\* the read thread evaluates running_ in its loop condition
LoopCheck ==
    /\ pc = "loop"
    /\ pc' = IF reading THEN "getline" ELSE "exited"
    /\ UNCHANGED <<running, initialized, connected, reading, tools, resources,
                   prompts, joining, cur, out, last, seen, wireErr, adv>>
    /\ UNCHANGED nonServerVars

\* std::getline returns a non-empty line, which is handed to onMessage
GetLine_ahead(line) ==
    /\ pc \in {"getline", "handling"}
    /\ pc' = "handling"
    /\ cur' = line
    /\ UNCHANGED <<running, initialized, connected, reading, tools, resources,
                   prompts, joining, out, last, seen, wireErr, adv>>
    /\ UNCHANGED nonServerVars
GetLine(line) ==
    /\ pc = "getline"
    /\ pc' = "handling"
    /\ cur' = line
    /\ UNCHANGED <<running, initialized, connected, reading, tools, resources,
                   prompts, joining, out, last, seen, wireErr, adv>>
    /\ UNCHANGED nonServerVars

\* std::getline fails at end of input: the read thread leaves its loop
GetEof ==
    /\ pc = "getline"
    /\ pc' = "exited"
    /\ UNCHANGED <<running, initialized, connected, reading, tools, resources,
                   prompts, joining, cur, out, last, seen, wireErr, adv>>
    /\ UNCHANGED nonServerVars

\* the line is an initialize request that handleRequest answers with a result
AnswersInitialize(line, lines) ==
    /\ Request_deserialize(line).ok
    /\ Request_deserialize(line).v.method = "initialize"
    /\ \E i \in 1..Len(lines) : lines[i].k = "frame" /\ Contains(lines[i].line.v, "result")

\* the members of a capabilities value: none when it is not an object
Flags(capabilities) == IF capabilities.t = "obj" THEN DOMAIN capabilities.o ELSE {}

\* the feature flags in both params.capabilities of the initialize request and
\* result.capabilities of the answer written for it
Advertised(line, lines) ==
    LET params == Request_deserialize(line).v.params
        client == IF Contains(params, "capabilities")
                  THEN Flags(At(params, "capabilities")) ELSE {}
    IN {f \in client : \E i \in 1..Len(lines) :
            /\ lines[i].k = "frame"
            /\ Contains(lines[i].line.v, "result")
            /\ f \in Flags(At(At(lines[i].line.v, "result"), "capabilities"))}

\* the line is a request for a method whose handler calls registered user code
CallsUserCode(line) ==
    /\ Request_deserialize(line).ok
    /\ Request_deserialize(line).v.method \in {"tools/call", "resources/read", "prompts/get"}

\* onMessage(line): MCPServer::handleMessage runs on the read thread
HandleMessage(h) ==
    /\ pc = "handling"
    /\ LET e == handleMessage(cur, h) IN
        /\ initialized' = e.initialized
        /\ running' = e.running
        /\ connected' = e.connected
        /\ reading' = e.reading
        /\ out' = e.lines
        /\ last' = [called |-> TRUE, line |-> cur, lines |-> e.lines,
                    live |-> StdioTransport_isConnected(connected, reading),
                    initialized |-> initialized, ready |-> e.initialized,
                    seen |-> seen, afterWireErr |-> wireErr, adv |-> adv,
                    h |-> IF CallsUserCode(cur) THEN h ELSE "none"]
        /\ seen' = (seen \/ AnswersInitialize(cur, e.lines))
        /\ adv' = IF AnswersInitialize(cur, e.lines) THEN Advertised(cur, e.lines) ELSE adv
        /\ wireErr' = ~Request_deserialize(cur).ok
    /\ pc' = "loop"
    /\ UNCHANGED <<tools, resources, prompts, joining, cur>>
    /\ UNCHANGED nonServerVars

Init ==
    /\ running = FALSE /\ initialized = FALSE
    /\ connected = FALSE /\ reading = FALSE
    /\ tools = {} /\ resources = {} /\ prompts = {}
    /\ pc = "none" /\ joining = FALSE /\ cur = NotJson
    /\ out = <<>> /\ last = NoCall /\ seen = FALSE /\ wireErr = FALSE /\ adv = {}
    /\ msg = ResponseDefault /\ calls = <<"Response()">>
    /\ wire = NoDecode
    /\ MCPClient_constructed
    /\ TaskEngine_created
    /\ Transport_unused
    /\ SseStream_unread
    /\ ErrorCode_unconverted
    /\ ThreadPool_idle

Next ==
    \/ Start
    \/ Stop
    \/ StopJoined
    \/ \E name \in ToolNames : RegisterTool(name)
    \/ \E uri \in ResourceUris : RegisterResource(uri)
    \/ \E name \in PromptNames : RegisterPrompt(name)
    \/ LoopCheck
    \/ \E line \in StdinLines : GetLine(line)
    \/ GetEof
    \/ \E h \in HandlerOutcomes : HandleMessage(h)

Spec == Init /\ [][Next]_vars

----------------------------------------------------------------------------
(* The codec on its own: message objects are constructed, changed through  *)
(* their setters, and serialized / deserialized by the functions above.    *)

CodecIds == {IdNull, IdInt(1), IdInt(-7), IdStr("a")}
CodecMethods == {"ping", "tools/call"}
CodecParams == {JNull, EmptyObject, JObj([name |-> JStr("echo")])}
CodecResults == {JNull, EmptyObject, JObj([tools |-> JArr(<<>>)])}
CodecErrors == {MCPError("MethodNotFound", "Method not found"),
                MCPError("InvalidParams", "Missing tool name"),
                [code |-> "InternalError", message |-> "Internal error",
                 data |-> JStr("detail")]}

NewRequest(id, method, params) ==
    /\ msg' = Request(id, method, params)
    /\ calls' = <<"Request">>
    /\ UNCHANGED nonCodecVars

NewResponse(id, result) ==
    /\ msg' = ResponseResult(id, result)
    /\ calls' = <<"Response(id,result)">>
    /\ UNCHANGED nonCodecVars

NewErrorResponse(id, e) ==
    /\ msg' = ResponseError(id, e)
    /\ calls' = <<"Response(id,error)">>
    /\ UNCHANGED nonCodecVars

NewDefaultResponse ==
    /\ msg' = ResponseDefault
    /\ calls' = <<"Response()">>
    /\ UNCHANGED nonCodecVars

NewNotification(method, params) ==
    /\ msg' = Notification(method, params)
    /\ calls' = <<"Notification">>
    /\ UNCHANGED nonCodecVars

SetResult(result) ==
    /\ msg.kind = "Response"
    /\ Len(calls) <= MaxCalls
    /\ msg' = Response_setResult(msg, result)
    /\ calls' = Append(calls, "setResult")
    /\ UNCHANGED nonCodecVars

SetError(e) ==
    /\ msg.kind = "Response"
    /\ Len(calls) <= MaxCalls
    /\ msg' = Response_setError(msg, e)
    /\ calls' = Append(calls, "setError")
    /\ UNCHANGED nonCodecVars

\* Message::setId
SetId(id) ==
    /\ Len(calls) <= MaxCalls
    /\ msg' = [msg EXCEPT !.id = Some(id)]
    /\ calls' = Append(calls, "setId")
    /\ UNCHANGED nonCodecVars

\* Request::setParams / Notification::setParams
SetParams(params) ==
    /\ msg.kind \in {"Request", "Notification"}
    /\ Len(calls) <= MaxCalls
    /\ msg' = [msg EXCEPT !.params = params]
    /\ calls' = Append(calls, "setParams")
    /\ UNCHANGED nonCodecVars

InitCodec ==
    /\ running = FALSE /\ initialized = FALSE
    /\ connected = FALSE /\ reading = FALSE
    /\ tools = {} /\ resources = {} /\ prompts = {}
    /\ pc = "none" /\ joining = FALSE /\ cur = NotJson
    /\ out = <<>> /\ last = NoCall /\ seen = FALSE /\ wireErr = FALSE /\ adv = {}
    /\ msg = ResponseDefault /\ calls = <<"Response()">>
    /\ wire = NoDecode
    /\ MCPClient_constructed
    /\ TaskEngine_created
    /\ Transport_unused
    /\ SseStream_unread
    /\ ErrorCode_unconverted
    /\ ThreadPool_idle

NextCodec ==
    \/ \E id \in CodecIds, m \in CodecMethods, p \in CodecParams : NewRequest(id, m, p)
    \/ \E id \in CodecIds, r \in CodecResults : NewResponse(id, r)
    \/ \E id \in CodecIds, e \in CodecErrors : NewErrorResponse(id, e)
    \/ NewDefaultResponse
    \/ \E m \in CodecMethods, p \in CodecParams : NewNotification(m, p)
    \/ \E r \in CodecResults : SetResult(r)
    \/ \E e \in CodecErrors : SetError(e)
    \/ \E id \in CodecIds : SetId(id)
    \/ \E p \in CodecParams : SetParams(p)

SpecCodec == InitCodec /\ [][NextCodec]_vars

----------------------------------------------------------------------------
(* The decoders on documents of every shape: a document arrives, one of    *)
(* the three deserialize functions is applied to it, and the envelope it   *)
(* returns is serialized again.                                            *)

\* a JSON object with the given members; Absent leaves the member out
Envelope(version, id, method, result, error) ==
    LET o0 == <<>>
        o1 == IF version # Absent THEN With(o0, "jsonrpc", version) ELSE o0
        o2 == IF id # Absent THEN With(o1, "id", id) ELSE o1
        o3 == IF method # Absent THEN With(o2, "method", method) ELSE o2
        o4 == IF result # Absent THEN With(o3, "result", result) ELSE o3
        o5 == IF error # Absent THEN With(o4, "error", error) ELSE o4
    IN Line(JObj(o5))

WireVersions == {V2, JStr("1.0")}
WireIdValues == {Absent, JNull, FromInt(1), FromInt(-7), BigId, JStr("a"), JFloat,
                 EmptyObject}
WireMethods == {Absent, JStr("ping")}
WireResults == {Absent, EmptyObject}
WireErrors == {Absent, JObj([code |-> FromInt(-32601),
                             message |-> JStr("Method not found")])}

WireLines ==
    {NotJson} \cup
    { Envelope(v, id, m, r, e) : v \in WireVersions, id \in WireIdValues,
                                 m \in WireMethods, r \in WireResults,
                                 e \in WireErrors }

\* Request::deserialize / Response::deserialize / Notification::deserialize
Decode(kind, line) ==
    /\ wire' = [kind |-> kind, line |-> line, res |-> Deserialize(kind, line),
                out |-> None]
    /\ UNCHANGED nonWireVars

\* serialize() of the envelope the decoder returned
Reencode ==
    /\ wire.kind # "none"
    /\ wire.res.ok
    /\ ~wire.out.has
    /\ wire' = [wire EXCEPT !.out = Some(Serialize(wire.res.v))]
    /\ UNCHANGED nonWireVars

InitWire ==
    /\ running = FALSE /\ initialized = FALSE
    /\ connected = FALSE /\ reading = FALSE
    /\ tools = {} /\ resources = {} /\ prompts = {}
    /\ pc = "none" /\ joining = FALSE /\ cur = NotJson
    /\ out = <<>> /\ last = NoCall /\ seen = FALSE /\ wireErr = FALSE /\ adv = {}
    /\ msg = ResponseDefault /\ calls = <<"Response()">>
    /\ wire = NoDecode
    /\ MCPClient_constructed
    /\ TaskEngine_created
    /\ Transport_unused
    /\ SseStream_unread
    /\ ErrorCode_unconverted
    /\ ThreadPool_idle

NextWire ==
    \/ \E kind \in {"Request", "Response", "Notification"}, line \in WireLines :
          Decode(kind, line)
    \/ Reencode

SpecWire == InitWire /\ [][NextWire]_vars

----------------------------------------------------------------------------
(* The client's operations (client/client.cpp) on a StdioTransport.  The   *)
(* application calls the client from the threads in Callers; the           *)
(* transport's read thread calls handleMessage.  pending_requests_ is a    *)
(* std::unordered_map that sendRequest and handleResponse access without a *)
(* lock: when two threads are at an access to it at the same time and one  *)
(* of them modifies it, the accesses form a data race, and the outcome of  *)
(* the access is any of RaceOutcomes.                                      *)

\* the parameters initialize() passes to sendRequest
ClientParams ==
    JObj([protocolVersion |-> JStr("2024-11-05"), capabilities |-> EmptyObject,
          clientInfo |-> ClientInfo])

\* what an access to the map does when it races with another thread's access:
\* it takes effect, it is lost, or the process is terminated
RaceOutcomes == {"applied", "lost", "crash"}

\* caller t is at an access to pending_requests_
SenderAtMap(t) == snd[t].pc \in {"insert", "erase"}

\* the read thread is at an access to pending_requests_ (find in handleResponse)
ReaderAtMap == rpc = "handling" /\ Response_deserialize(rcur).ok

\* the outcomes of an access by caller t
SenderOutcomes(t) ==
    IF ReaderAtMap \/ \E u \in Callers \ {t} : SenderAtMap(u)
    THEN RaceOutcomes ELSE {"applied"}

\* the outcomes of an access by the read thread
ReaderOutcomes ==
    IF ReaderAtMap /\ \E u \in Callers : SenderAtMap(u)
    THEN RaceOutcomes ELSE {"applied"}

\* pending_requests_[id] = promise
MapInsert(m, id, h) == (id :> h) @@ m

\* pending_requests_.erase(id)
MapErase(m, id) == [i \in DOMAIN m \ {id} |-> m[i]]

\* ++request_id_counter_
NextRequestId_stuck(c) == c
NextRequestId(c) == c + 1

\* the future of a request: it waits, holds a Response, or holds an exception
Handle(id) == [id |-> id, state |-> "waiting"]

\* MCPClient::connect, with StdioTransport::connect
ClientConnect ==
    /\ ~crashed /\ ~cjoin
    /\ IF cconn
       THEN UNCHANGED <<cconn, cread, rpc>>
       ELSE cconn' = TRUE /\ cread' = TRUE /\ rpc' = "loop"
    /\ cout' = Log("INFO", "MCP Client connected")
    /\ UNCHANGED <<counter, pending, handles, cinit, rcur, snd, cjoin, crashed, clast>>
    /\ UNCHANGED nonClientVars

\* MCPClient::disconnect, with StdioTransport::disconnect up to read_thread_.join()
ClientDisconnect ==
    /\ ~crashed /\ ~cjoin
    /\ cread' = FALSE
    /\ cconn' = FALSE
    /\ IF rpc = "none"
       THEN /\ cjoin' = FALSE /\ cinit' = FALSE
            /\ cout' = Log("INFO", "MCP Client disconnected")
       ELSE /\ cjoin' = TRUE /\ cout' = <<>>
            /\ UNCHANGED cinit
    /\ UNCHANGED <<counter, pending, handles, rpc, rcur, snd, crashed, clast>>
    /\ UNCHANGED nonClientVars

\* read_thread_.join() returns, and disconnect() finishes
ClientDisconnectJoined ==
    /\ ~crashed /\ cjoin
    /\ rpc = "exited"
    /\ rpc' = "none"
    /\ cjoin' = FALSE
    /\ cinit' = FALSE
    /\ cout' = Log("INFO", "MCP Client disconnected")
    /\ UNCHANGED <<counter, pending, handles, cconn, cread, rcur, snd, crashed, clast>>
    /\ UNCHANGED nonClientVars

\* the methods of the client called here: initialize() and listTools()
ClientMethods == {"initialize", "tools/list"}

\* the parameters the method passes to sendRequest
ParamsFor(method) == IF method = "initialize" THEN ClientParams ELSE EmptyObject

\* the call has thrown std::runtime_error and the caller is outside the client
Thrown(what) == [pc |-> "threw", what |-> what]

\* caller t is not inside a call of the client
Resting(t) == snd[t].pc \in {"idle", "threw"}

\* MCPClient::setInitialized
SetInitialized(b) ==
    /\ ~crashed
    /\ cinit # b
    /\ cinit' = b
    /\ UNCHANGED <<counter, pending, handles, cconn, cread, rpc, rcur, snd, cjoin,
                   crashed, cout, clast>>
    /\ UNCHANGED nonClientVars

\* initialize() or listTools() up to the creation of the promise in
\* sendRequest; listTools() throws when the client is not initialised, and
\* initialize() and sendRequest throw when it is not connected: the call then
\* changes nothing
SendRequest_unguarded(t, method) ==
    /\ ~crashed
    /\ Resting(t)
    /\ Len(handles) < MaxSends
    /\ counter' = NextRequestId(counter)
    /\ handles' = Append(handles, Handle(IdInt(counter')))
    /\ snd' = [snd EXCEPT ![t] = [pc |-> "insert", h |-> Len(handles) + 1,
                                  method |-> method]]
    /\ cout' = <<>>
    /\ UNCHANGED <<pending, cinit, cconn, cread, rpc, rcur, cjoin, crashed, clast>>
    /\ UNCHANGED nonClientVars
SendRequest(t, method) ==
    /\ ~crashed
    /\ Resting(t)
    /\ Len(handles) < MaxSends
    /\ IF method # "initialize" /\ ~cinit
       THEN /\ snd' = [snd EXCEPT ![t] = Thrown("Client not initialized")]
            /\ UNCHANGED <<counter, handles>>
       ELSE IF ~StdioTransport_isConnected(cconn, cread)
       THEN /\ snd' = [snd EXCEPT ![t] = Thrown("Client not connected")]
            /\ UNCHANGED <<counter, handles>>
       ELSE /\ counter' = NextRequestId(counter)
            /\ handles' = Append(handles, Handle(IdInt(counter')))
            /\ snd' = [snd EXCEPT ![t] = [pc |-> "insert", h |-> Len(handles) + 1,
                                          method |-> method]]
    /\ cout' = <<>>
    /\ UNCHANGED <<pending, cinit, cconn, cread, rpc, rcur, cjoin, crashed, clast>>
    /\ UNCHANGED nonClientVars

\* sendRequest: pending_requests_[id] = promise
SendInsert(t, o) ==
    /\ ~crashed
    /\ snd[t].pc = "insert"
    /\ o \in SenderOutcomes(t)
    /\ pending' = IF o = "applied"
                  THEN MapInsert(pending, handles[snd[t].h].id, snd[t].h)
                  ELSE pending
    /\ crashed' = (o = "crash")
    /\ snd' = [snd EXCEPT ![t].pc = "write"]
    /\ cout' = <<>>
    /\ UNCHANGED <<counter, handles, cinit, cconn, cread, rpc, rcur, cjoin, clast>>
    /\ UNCHANGED nonClientVars

\* sendRequest: transport_->write(message); the future is returned when it succeeds
SendWrite(t) ==
    /\ ~crashed
    /\ snd[t].pc = "write"
    /\ LET request == Request(handles[snd[t].h].id, snd[t].method,
                              ParamsFor(snd[t].method))
           w == StdioTransport_write(cconn, cread, Request_serialize(request))
       IN /\ cout' = w.lines \o (IF w.ok THEN Log("DEBUG", "Sent request") ELSE <<>>)
          /\ snd' = [snd EXCEPT ![t] = IF w.ok THEN Idle
                                       ELSE [snd[t] EXCEPT !.pc = "erase"]]
    /\ UNCHANGED <<counter, pending, handles, cinit, cconn, cread, rpc, rcur, cjoin,
                   crashed, clast>>
    /\ UNCHANGED nonClientVars

\* sendRequest after a failed write: pending_requests_.erase(id) and
\* promise->set_exception(runtime_error("Failed to send request"))
SendErase(t, o) ==
    /\ ~crashed
    /\ snd[t].pc = "erase"
    /\ o \in SenderOutcomes(t)
    /\ pending' = IF o = "applied"
                  THEN MapErase(pending, handles[snd[t].h].id)
                  ELSE pending
    /\ crashed' = (o = "crash")
    \* set_exception on a promise that is already satisfied throws
    \* std::future_error out of sendRequest, and the handle keeps its value
    /\ handles' = IF o = "crash" \/ handles[snd[t].h].state # "waiting"
                  THEN handles
                  ELSE [handles EXCEPT ![snd[t].h].state = "exception"]
    /\ snd' = [snd EXCEPT ![t] = Idle]
    /\ cout' = <<>>
    /\ UNCHANGED <<counter, cinit, cconn, cread, rpc, rcur, cjoin, clast>>
    /\ UNCHANGED nonClientVars

\* MCPClient::handleResponse on the map pend and the handles hs: the map and the
\* handles it leaves, the lines it adds to std::cout, and whether it throws
MCPClient_handleResponse(response, pend, hs, o) ==
    LET id == response.id.v IN
    IF o = "lost" \/ id \notin DOMAIN pend
    THEN [pending |-> pend, handles |-> hs, threw |-> FALSE,
          lines |-> Log("WARN", "Received response for unknown request ID")]
    ELSE LET h == pend[id] IN
         IF hs[h].state # "waiting"
         \* set_value on a promise that is already satisfied throws std::future_error
         THEN [pending |-> MapErase(pend, id), handles |-> hs, threw |-> TRUE,
               lines |-> <<>>]
         ELSE [pending |-> MapErase(pend, id),
               handles |-> [hs EXCEPT ![h].state = "value"],
               threw |-> FALSE, lines |-> <<>>]

\* MCPClient::handleNotification: subscriptions and callbacks are user code
MCPClient_handleNotification(notification) == Log("DEBUG", "Received notification")

\* MCPClient::handleMessage
MCPClient_handleMessage(message, pend, hs, o) ==
    LET response == Response_deserialize(message)
        failed == [pending |-> pend, handles |-> hs,
                   lines |-> Log("ERROR", "Failed to handle message")]
    IN IF ~response.ok THEN failed
       ELSE IF response.v.id.has
       THEN LET r == MCPClient_handleResponse(response.v, pend, hs, o)
            IN IF r.threw
               THEN [failed EXCEPT !.pending = r.pending]
               ELSE [pending |-> r.pending, handles |-> r.handles, lines |-> r.lines]
       ELSE LET notification == Notification_deserialize(message)
            IN IF ~notification.ok THEN failed
               ELSE [pending |-> pend, handles |-> hs,
                     lines |-> MCPClient_handleNotification(notification.v)]

\* a Response document as a peer writes it
ResponseDoc(id, result, error) == Envelope(V2, id, Absent, result, error)

\* the lines a peer puts on the client's stdin
ClientLines ==
    { ResponseDoc(FromInt(1), EmptyObject, Absent),
      ResponseDoc(FromInt(2), EmptyObject, Absent),
      ResponseDoc(BigId, EmptyObject, Absent),
      ResponseDoc(JStr("1"), EmptyObject, Absent),
      Doc(V2, Absent, JStr("notifications/progress"), EmptyObject) }

\* the read thread evaluates running_ in its loop condition
ClientLoopCheck ==
    /\ ~crashed
    /\ rpc = "loop"
    /\ rpc' = IF cread THEN "getline" ELSE "exited"
    /\ UNCHANGED <<counter, pending, handles, cinit, cconn, cread, rcur, snd, cjoin,
                   crashed, cout, clast>>
    /\ UNCHANGED nonClientVars

\* std::getline returns a non-empty line, which is handed to onMessage
ClientGetLine(line) ==
    /\ ~crashed
    /\ rpc = "getline"
    /\ rpc' = "handling"
    /\ rcur' = line
    /\ UNCHANGED <<counter, pending, handles, cinit, cconn, cread, snd, cjoin,
                   crashed, cout, clast>>
    /\ UNCHANGED nonClientVars

\* std::getline fails at end of input: the read thread leaves its loop
ClientGetEof ==
    /\ ~crashed
    /\ rpc = "getline"
    /\ rpc' = "exited"
    /\ UNCHANGED <<counter, pending, handles, cinit, cconn, cread, rcur, snd, cjoin,
                   crashed, cout, clast>>
    /\ UNCHANGED nonClientVars

\* onMessage(line): MCPClient::handleMessage runs on the read thread
ClientHandleMessage(o) ==
    /\ ~crashed
    /\ rpc = "handling"
    /\ o \in ReaderOutcomes
    /\ IF o = "crash"
       THEN crashed' = TRUE /\ UNCHANGED <<pending, handles, cout, clast, rpc>>
       ELSE LET e == MCPClient_handleMessage(rcur, pending, handles, o) IN
            /\ pending' = e.pending
            /\ handles' = e.handles
            /\ cout' = e.lines
            /\ clast' = [called |-> TRUE, line |-> rcur]
            /\ rpc' = "loop"
            /\ UNCHANGED crashed
    /\ UNCHANGED <<counter, cinit, cconn, cread, rcur, snd, cjoin>>
    /\ UNCHANGED nonClientVars

InitClient ==
    /\ running = FALSE /\ initialized = FALSE
    /\ connected = FALSE /\ reading = FALSE
    /\ tools = {} /\ resources = {} /\ prompts = {}
    /\ pc = "none" /\ joining = FALSE /\ cur = NotJson
    /\ out = <<>> /\ last = NoCall /\ seen = FALSE /\ wireErr = FALSE /\ adv = {}
    /\ msg = ResponseDefault /\ calls = <<"Response()">>
    /\ wire = NoDecode
    /\ MCPClient_constructed
    /\ TaskEngine_created
    /\ Transport_unused
    /\ SseStream_unread
    /\ ErrorCode_unconverted
    /\ ThreadPool_idle

NextClient ==
    \/ ClientConnect
    \/ ClientDisconnect
    \/ ClientDisconnectJoined
    \/ \E t \in Callers : SendRequest(t, "initialize")
    \/ \E t \in Callers, o \in RaceOutcomes : SendInsert(t, o)
    \/ \E t \in Callers : SendWrite(t)
    \/ \E t \in Callers, o \in RaceOutcomes : SendErase(t, o)
    \/ ClientLoopCheck
    \/ \E line \in ClientLines : ClientGetLine(line)
    \/ ClientGetEof
    \/ \E o \in RaceOutcomes : ClientHandleMessage(o)

SpecClient == InitClient /\ [][NextClient]_vars

\* the application's side of the client alone: the calls it makes from its
\* threads, with both methods and with setInitialized, on a transport whose
\* peer sends no line
NextClientApi ==
    \/ ClientConnect
    \/ ClientDisconnect
    \/ ClientDisconnectJoined
    \/ \E b \in BOOLEAN : SetInitialized(b)
    \/ \E t \in Callers, method \in ClientMethods : SendRequest(t, method)
    \/ \E t \in Callers, o \in RaceOutcomes : SendInsert(t, o)
    \/ \E t \in Callers : SendWrite(t)
    \/ \E t \in Callers, o \in RaceOutcomes : SendErase(t, o)
    \/ ClientLoopCheck
    \/ ClientGetEof

SpecClientApi == InitClient /\ [][NextClientApi]_vars

----------------------------------------------------------------------------
(* The task engine.  Source/Protocol/Task/BasicTask.h declares the Task of  *)
(* an inbound request (ProcessRequest: Execute, Cancel, IsCancelled,        *)
(* IsFinished); the bodies of these functions and the session that owns     *)
(* InboundActive are not among the sources, and are modelled from sections  *)
(* 3, 4.5 and 4.6 of the specification.                                     *)

\* the ids inbound requests carry
TaskIds == {IdInt(1), IdStr("a")}

\* ProcessRequest(spRequest): a Task in state Pending with its flags cleared
ProcessRequest(id) ==
    [id |-> id, state |-> "Pending", m_bCancelled |-> FALSE, m_bFinished |-> FALSE]

\* ProcessRequest::Cancel: sets the cancellation flag
ProcessRequest_Cancel_ignored(task) == task
ProcessRequest_Cancel(task) == [task EXCEPT !.m_bCancelled = TRUE]

\* ProcessRequest::IsCancelled: the handler's cancellation observer
ProcessRequest_IsCancelled(task) == task.m_bCancelled

\* ProcessRequest::IsFinished
ProcessRequest_IsFinished(task) == task.m_bFinished

\* a terminal Response handed to the notification pump; code 0 is a result
TaskResponse(k, id, code) == [task |-> k, id |-> id, code |-> code]

\* the Task reaches a terminal state: its Response is enqueued on the
\* notification pump; it leaves InboundActive in a step of its own (Retire)
Finish(k, state, code) ==
    /\ tasks' = [tasks EXCEPT ![k].state = state, ![k].m_bFinished = TRUE]
    /\ pump' = Append(pump, TaskResponse(k, tasks[k].id, code))
    /\ UNCHANGED inboundActive

\* the dispatcher turns an inbound Request into a Task, or rejects it with
\* INVALID_REQUEST while a Task with the same id is still active
DispatchRequest_always(id) ==
    /\ Len(tasks) < MaxTasks
    /\ tasks' = Append(tasks, ProcessRequest(id))
    /\ inboundActive' = MapInsert(inboundActive, id, Len(tasks) + 1)
    /\ UNCHANGED <<pump, note>>
    /\ UNCHANGED nonTaskVars
DispatchRequest(id) ==
    /\ IF id \in DOMAIN inboundActive
       THEN /\ Len(pump) < MaxTasks
            /\ pump' = Append(pump, TaskResponse(0, id, -32600))
            /\ UNCHANGED <<tasks, inboundActive>>
       ELSE /\ Len(tasks) < MaxTasks
            /\ tasks' = Append(tasks, ProcessRequest(id))
            /\ inboundActive' = MapInsert(inboundActive, id, Len(tasks) + 1)
            /\ UNCHANGED pump
    /\ UNCHANGED note
    /\ UNCHANGED nonTaskVars

\* ProcessRequest::Execute begins: a worker takes the Task
Execute(k) ==
    /\ k \in DOMAIN tasks
    /\ tasks[k].state = "Pending"
    /\ tasks' = [tasks EXCEPT ![k].state = "Running"]
    /\ UNCHANGED <<inboundActive, pump, note>>
    /\ UNCHANGED nonTaskVars

\* notifications/cancelled with params.requestId = id: the Task in
\* InboundActive is cancelled; an id that is not there is ignored
CancelledNotification(id) ==
    /\ note.n < MaxTasks
    /\ note' = [n |-> note.n + 1, id |-> id, active |-> id \in DOMAIN inboundActive]
    /\ tasks' = IF id \in DOMAIN inboundActive
                THEN [tasks EXCEPT ![inboundActive[id]] = ProcessRequest_Cancel(@)]
                ELSE tasks
    /\ UNCHANGED <<inboundActive, pump>>
    /\ UNCHANGED nonTaskVars

\* the handler sees the cancellation observer true and acknowledges it before
\* it has emitted a response: the Task ends with REQUEST_CANCELLED
AcknowledgeCancel(k) ==
    /\ k \in DOMAIN tasks
    /\ tasks[k].state = "Running"
    /\ ProcessRequest_IsCancelled(tasks[k])
    /\ Finish(k, "Cancelled", -32800)
    /\ UNCHANGED note
    /\ UNCHANGED nonTaskVars

\* the handler completes with a result (code 0) or fails with INTERNAL_ERROR;
\* when cancellation was requested before the Response is enqueued, the
\* cancellation wins and the Response is REQUEST_CANCELLED
Complete_heedless(k, ok) ==
    /\ k \in DOMAIN tasks
    /\ tasks[k].state = "Running"
    /\ IF ok THEN Finish(k, "Succeeded", 0) ELSE Finish(k, "Failed", -32603)
    /\ UNCHANGED note
    /\ UNCHANGED nonTaskVars
Complete(k, ok) ==
    /\ k \in DOMAIN tasks
    /\ tasks[k].state = "Running"
    /\ IF ProcessRequest_IsCancelled(tasks[k])
       THEN Finish(k, "Cancelled", -32800)
       ELSE IF ok THEN Finish(k, "Succeeded", 0) ELSE Finish(k, "Failed", -32603)
    /\ UNCHANGED note
    /\ UNCHANGED nonTaskVars

\* after its Response was handed to the pump the Task leaves InboundActive
Retire(k) ==
    /\ k \in DOMAIN tasks
    /\ ProcessRequest_IsFinished(tasks[k])
    /\ tasks[k].id \in DOMAIN inboundActive
    /\ inboundActive[tasks[k].id] = k
    /\ inboundActive' = MapErase(inboundActive, tasks[k].id)
    /\ UNCHANGED <<tasks, pump, note>>
    /\ UNCHANGED nonTaskVars

InitTask ==
    /\ running = FALSE /\ initialized = FALSE
    /\ connected = FALSE /\ reading = FALSE
    /\ tools = {} /\ resources = {} /\ prompts = {}
    /\ pc = "none" /\ joining = FALSE /\ cur = NotJson
    /\ out = <<>> /\ last = NoCall /\ seen = FALSE /\ wireErr = FALSE /\ adv = {}
    /\ msg = ResponseDefault /\ calls = <<"Response()">>
    /\ wire = NoDecode
    /\ MCPClient_constructed
    /\ TaskEngine_created
    /\ Transport_unused
    /\ SseStream_unread
    /\ ErrorCode_unconverted
    /\ ThreadPool_idle

NextTask ==
    \/ \E id \in TaskIds : DispatchRequest(id)
    \/ \E k \in 1..MaxTasks : Execute(k)
    \/ \E id \in TaskIds : CancelledNotification(id)
    \/ \E k \in 1..MaxTasks : AcknowledgeCancel(k)
    \/ \E k \in 1..MaxTasks, ok \in BOOLEAN : Complete(k, ok)
    \/ \E k \in 1..MaxTasks : Retire(k)

SpecTask == InitTask /\ [][NextTask]_vars

----------------------------------------------------------------------------
(* The transports (transport/stdio_transport.cpp, http_transport.cpp,      *)
(* sse_transport.cpp, websocket_transport.cpp built without                *)
(* MCP_USE_LIBWEBSOCKETS, and Source/Protocol/Transport/HttpSseTransport.cpp) *)

\* what a call returns: the transport after it, the value returned, the data
\* that reached the peer and the callbacks invoked
Outcome(t, ok, delivered, callbacks) ==
    [t |-> t, ok |-> ok, delivered |-> delivered, callbacks |-> callbacks]

\* isConnected(): connected_ && running_; CHttpSseTransport has no such query,
\* its m_connected is read instead
Transport_isConnected(t) ==
    IF t.variant = "CHttpSseTransport" THEN t.connected_
    ELSE t.connected_ /\ t.running_

\* if (thread.joinable()) thread.join(): returns at once for a thread that has
\* left its loop, blocks for one that has not
Join_unchecked(t) == [t EXCEPT !.joining = TRUE]
Join(t) ==
    CASE t.thread = "none" -> t
      [] t.thread = "exited" -> [t EXCEPT !.thread = "none"]
      [] t.thread = "live" -> [t EXCEPT !.joining = TRUE]

Connected(t) == [t EXCEPT !.connected_ = TRUE, !.running_ = TRUE, !.closed = FALSE]

StdioTransport_connect(t) ==
    IF t.connected_ THEN Outcome(t, TRUE, <<>>, <<>>)
    ELSE Outcome([Connected(t) EXCEPT !.thread = "live"], TRUE, <<>>, <<>>)

\* o: whether curl_easy_init returns a handle
HttpTransport_connect(t, o) ==
    IF t.connected_ THEN Outcome(t, TRUE, <<>>, <<>>)
    ELSE IF o = "no_handle" THEN Outcome(t, FALSE, <<>>, <<"onError">>)
    ELSE Outcome([Connected(t) EXCEPT !.curl_ = TRUE], TRUE, <<>>, <<>>)

SseTransport_connect(t, o) ==
    IF t.connected_ THEN Outcome(t, TRUE, <<>>, <<>>)
    ELSE IF o = "no_handle" THEN Outcome(t, FALSE, <<>>, <<"onError">>)
    ELSE Outcome([Connected(t) EXCEPT !.curl_ = TRUE, !.thread = "live"],
                 TRUE, <<>>, <<>>)

WebSocketTransport_connect(t) ==
    IF t.connected_ THEN Outcome(t, TRUE, <<>>, <<>>)
    ELSE Outcome(t, FALSE, <<>>, <<"onError">>)

CHttpSseTransport_Connect(t) ==
    Outcome([t EXCEPT !.connected_ = TRUE, !.closed = FALSE], TRUE, <<>>, <<>>)

Transport_connect(t, o) ==
    CASE t.variant = "StdioTransport" -> StdioTransport_connect(t)
      [] t.variant = "HttpTransport" -> HttpTransport_connect(t, o)
      [] t.variant = "SseTransport" -> SseTransport_connect(t, o)
      [] t.variant = "WebSocketTransport" -> WebSocketTransport_connect(t)
      [] t.variant = "CHttpSseTransport" -> CHttpSseTransport_Connect(t)

Disconnected(t) == [t EXCEPT !.running_ = FALSE, !.connected_ = FALSE, !.closed = TRUE]

StdioTransport_disconnect(t) == Join(Disconnected(t))

\* curl_easy_cleanup follows the join
SseTransport_disconnect(t) ==
    LET j == Join(Disconnected(t)) IN
    IF j.joining THEN j ELSE [j EXCEPT !.curl_ = FALSE]

HttpTransport_disconnect(t) == [Disconnected(t) EXCEPT !.curl_ = FALSE]

WebSocketTransport_disconnect(t) == Disconnected(t)

CHttpSseTransport_Disconnect(t) == [t EXCEPT !.connected_ = FALSE, !.closed = TRUE]

Transport_disconnect(t) ==
    CASE t.variant = "StdioTransport" -> StdioTransport_disconnect(t)
      [] t.variant = "HttpTransport" -> HttpTransport_disconnect(t)
      [] t.variant = "SseTransport" -> SseTransport_disconnect(t)
      [] t.variant = "WebSocketTransport" -> WebSocketTransport_disconnect(t)
      [] t.variant = "CHttpSseTransport" -> CHttpSseTransport_Disconnect(t)

\* o: what curl_easy_perform and the response code come to
HttpTransport_write(t, data, o) ==
    IF ~Transport_isConnected(t) \/ ~t.curl_ THEN Outcome(t, FALSE, <<>>, <<>>)
    ELSE CASE o = "curl_error" -> Outcome(t, FALSE, <<>>, <<"onError">>)
           [] o = "2xx" -> Outcome(t, TRUE, <<data>>, <<"onMessage">>)
           [] o = "2xx_empty" -> Outcome(t, TRUE, <<data>>, <<>>)
           [] o = "http_error" -> Outcome(t, FALSE, <<data>>, <<"onError">>)

SseTransport_write(t, data) == Outcome(t, FALSE, <<>>, <<"onError">>)

WebSocketTransport_write(t, data) ==
    IF ~Transport_isConnected(t) THEN Outcome(t, FALSE, <<>>, <<>>)
    ELSE Outcome(t, FALSE, <<>>, <<"onError">>)

\* the stub returns ERRNO_OK whatever m_connected is
CHttpSseTransport_Write(t, data) == Outcome(t, TRUE, <<>>, <<>>)

Transport_write(t, data, o) ==
    CASE t.variant = "StdioTransport" ->
           LET w == StdioTransport_write(t.connected_, t.running_, data) IN
           Outcome(t, w.ok, [i \in 1..Len(w.lines) |-> w.lines[i].line], <<>>)
      [] t.variant = "HttpTransport" -> HttpTransport_write(t, data, o)
      [] t.variant = "SseTransport" -> SseTransport_write(t, data)
      [] t.variant = "WebSocketTransport" -> WebSocketTransport_write(t, data)
      [] t.variant = "CHttpSseTransport" -> CHttpSseTransport_Write(t, data)

ConnectOutcomes == {"handle", "no_handle"}
WriteOutcomes == {"curl_error", "2xx", "2xx_empty", "http_error"}
TransportData == {"{}", "[]", "null"}

Called(op, arg, r) ==
    [op |-> op, arg |-> arg, ok |-> r.ok, delivered |-> r.delivered, callbacks |-> r.callbacks,
     before |-> tp, after |-> r.t]

\* connect(), by the thread that owns the transport
TransportConnect(o) ==
    /\ ~tp.joining
    /\ LET r == Transport_connect(tp, o) IN
         tp' = r.t /\ tlast' = Called("connect", "", r)
    /\ UNCHANGED nonTransportVars

\* disconnect(), up to the join of the transport's thread
TransportDisconnect ==
    /\ ~tp.joining
    /\ LET r == Outcome(Transport_disconnect(tp), TRUE, <<>>, <<>>) IN
         tp' = r.t /\ tlast' = Called("disconnect", "", r)
    /\ UNCHANGED nonTransportVars

\* the join returns once the thread has left its loop; SseTransport then
\* releases its handle
TransportJoined ==
    /\ tp.joining
    /\ tp.thread = "exited"
    /\ tp' = [tp EXCEPT !.joining = FALSE, !.thread = "none",
                        !.curl_ = IF tp.variant = "SseTransport" THEN FALSE ELSE @]
    /\ UNCHANGED tlast
    /\ UNCHANGED nonTransportVars

\* write(data)
TransportWrite(data, o) ==
    /\ LET r == Transport_write(tp, data, o) IN
         tp' = r.t /\ tlast' = Called("write", data, r)
    /\ UNCHANGED nonTransportVars

\* the transport's thread: std::getline returns a line, or curl_easy_perform
\* returns CURLE_OK, and the loop goes on while running_ is set
ThreadGoesOn ==
    /\ tp.thread = "live"
    /\ LET r == Outcome([tp EXCEPT !.thread = IF tp.running_ THEN "live" ELSE "exited"],
                        TRUE, <<>>,
                        IF tp.variant = "StdioTransport" THEN <<"onMessage">> ELSE <<>>) IN
         tp' = r.t /\ tlast' = Called("read", "", r)
    /\ UNCHANGED nonTransportVars

\* the transport's thread: std::getline meets the end of stdin, or
\* curl_easy_perform fails; the thread leaves its loop, SseTransport reporting
\* the failure while running_ is set
ThreadEnds ==
    /\ tp.thread = "live"
    /\ LET r == Outcome([tp EXCEPT !.thread = "exited"], TRUE, <<>>,
                        IF tp.variant = "SseTransport" /\ tp.running_
                        THEN <<"onError">> ELSE <<>>) IN
         tp' = r.t /\ tlast' = Called("eof", "", r)
    /\ UNCHANGED nonTransportVars

InitTransport ==
    /\ running = FALSE /\ initialized = FALSE
    /\ connected = FALSE /\ reading = FALSE
    /\ tools = {} /\ resources = {} /\ prompts = {}
    /\ pc = "none" /\ joining = FALSE /\ cur = NotJson
    /\ out = <<>> /\ last = NoCall /\ seen = FALSE /\ wireErr = FALSE /\ adv = {}
    /\ msg = ResponseDefault /\ calls = <<"Response()">>
    /\ wire = NoDecode
    /\ MCPClient_constructed
    /\ TaskEngine_created
    /\ tp \in {Transport(variant) : variant \in Variants}
    /\ tlast = NoTransportCall
    /\ SseStream_unread
    /\ ErrorCode_unconverted
    /\ ThreadPool_idle

NextTransport ==
    \/ \E o \in ConnectOutcomes : TransportConnect(o)
    \/ TransportDisconnect
    \/ TransportJoined
    \/ \E data \in TransportData, o \in WriteOutcomes : TransportWrite(data, o)
    \/ ThreadGoesOn
    \/ ThreadEnds

SpecTransport == InitTransport /\ [][NextTransport]_vars

----------------------------------------------------------------------------
(* The SSE reader (transport/sse_transport.cpp).  Bytes are one-character   *)
(* strings, a std::string is a sequence of them.                            *)

LF == "\n"
CR == "\r"

\* the lines std::getline takes from std::istringstream(chunk): the pieces
\* between line feeds, a last piece without a line feed included when it is
\* not empty
RECURSIVE GetLines(_, _)
GetLines(chunk, line) ==
    IF chunk = <<>> THEN (IF line = <<>> THEN <<>> ELSE <<line>>)
    ELSE IF Head(chunk) = LF THEN <<line>> \o GetLines(Tail(chunk), <<>>)
    ELSE GetLines(Tail(chunk), Append(line, Head(chunk)))

\* line.substr(0, 6) and line.substr(6)
Substr(line, from, n) ==
    SubSeq(line, from + 1, IF from + n > Len(line) THEN Len(line) ELSE from + n)

DataPrefix == <<"d", "a", "t", "a", ":", " ">>

\* SseTransport::processSseEvent: the frames handed to onMessage
SseTransport_processSseEvent(eventData) ==
    IF eventData = <<>> THEN <<>>
    ELSE IF eventData[Len(eventData)] = LF
         THEN <<SubSeq(eventData, 1, Len(eventData) - 1)>>
         ELSE <<eventData>>

\* the loop body of WriteCallback for one line
WriteCallback_line(line, st) ==
    IF line = <<>> \/ line = <<CR>>
    THEN IF st.data # <<>>
         THEN [data |-> <<>>, frames |-> st.frames \o SseTransport_processSseEvent(st.data)]
         ELSE st
    ELSE IF Substr(line, 0, 6) = DataPrefix
         THEN [st EXCEPT !.data = st.data \o Substr(line, 6, Len(line)) \o <<LF>>]
         ELSE st

RECURSIVE WriteCallback_lines(_, _)
WriteCallback_lines(lines, st) ==
    IF lines = <<>> THEN st
    ELSE WriteCallback_lines(Tail(lines), WriteCallback_line(Head(lines), st))

\* WriteCallback(contents, size, nmemb, userp): the event buffer and the frames
\* delivered after the chunk
WriteCallback(chunk, st) == WriteCallback_lines(GetLines(chunk, <<>>), st)

\* an event as the peer puts it on the stream: an optional id field, one data
\* field with the payload, an empty line
SseEvent(payload, withId) ==
    (IF withId THEN <<"i", "d", ":", " ", "7", LF>> ELSE <<>>)
    \o DataPrefix \o payload \o <<LF, LF>>

RECURSIVE SseBytes(_)
SseBytes(events) ==
    IF events = <<>> THEN <<>>
    ELSE SseEvent(Head(events).payload, Head(events).withId) \o SseBytes(Tail(events))

SsePayloads == {<<"{", "}">>, <<"1">>}

\* streams of at most MaxEvents events
SseStreams ==
    UNION {[1..n -> [payload : SsePayloads, withId : BOOLEAN]] : n \in 1..MaxEvents}

\* libcurl hands the next n bytes of the stream to WriteCallback
SseReceive(n) ==
    /\ n \in 1..(Len(sse.stream) - sse.pos)
    /\ LET st == WriteCallback(SubSeq(sse.stream, sse.pos + 1, sse.pos + n),
                               [data |-> sse.data, frames |-> sse.frames]) IN
         sse' = [sse EXCEPT !.pos = sse.pos + n, !.data = st.data, !.frames = st.frames]
    /\ UNCHANGED nonSseVars

InitSse ==
    /\ running = FALSE /\ initialized = FALSE
    /\ connected = FALSE /\ reading = FALSE
    /\ tools = {} /\ resources = {} /\ prompts = {}
    /\ pc = "none" /\ joining = FALSE /\ cur = NotJson
    /\ out = <<>> /\ last = NoCall /\ seen = FALSE /\ wireErr = FALSE /\ adv = {}
    /\ msg = ResponseDefault /\ calls = <<"Response()">>
    /\ wire = NoDecode
    /\ MCPClient_constructed
    /\ TaskEngine_created
    /\ Transport_unused
    /\ sse \in {SseReader(events, SseBytes(events)) : events \in SseStreams}
    /\ ErrorCode_unconverted
    /\ ThreadPool_idle

NextSse == \E n \in 1..MaxChunk : SseReceive(n)

SpecSse == InitSse /\ [][NextSse]_vars

----------------------------------------------------------------------------
(* Error code conversion (core/error.cpp, core/error_simple.cpp) *)

\* the integers converted: from JSON_RPC_PARSE_ERROR to JSON_RPC_INVALID_REQUEST,
\* which holds every constant of the module, and CodeSpan values on either side
LowestCode == -32700 - CodeSpan
HighestCode == -32600 + CodeSpan

\* errorCodeFromInt(n)
FromIntCalled ==
    /\ ec.stage = "int"
    /\ ec' = [stage |-> "code", n |-> ec.n, code |-> errorCodeFromInt(ec.n)]
    /\ UNCHANGED nonErrorVars

\* errorCodeToInt on the ErrorCode obtained
ToIntCalled ==
    /\ ec.stage = "code"
    /\ ec' = [stage |-> "back", n |-> ec.n, code |-> ec.code,
              back |-> errorCodeToInt(ec.code)]
    /\ UNCHANGED nonErrorVars

InitError ==
    /\ running = FALSE /\ initialized = FALSE
    /\ connected = FALSE /\ reading = FALSE
    /\ tools = {} /\ resources = {} /\ prompts = {}
    /\ pc = "none" /\ joining = FALSE /\ cur = NotJson
    /\ out = <<>> /\ last = NoCall /\ seen = FALSE /\ wireErr = FALSE /\ adv = {}
    /\ msg = ResponseDefault /\ calls = <<"Response()">>
    /\ wire = NoDecode
    /\ MCPClient_constructed
    /\ TaskEngine_created
    /\ Transport_unused
    /\ SseStream_unread
    /\ ec \in {[stage |-> "int", n |-> n] : n \in LowestCode..HighestCode}
    /\ ThreadPool_idle

NextError ==
    \/ FromIntCalled
    \/ ToIntCalled

SpecError == InitError /\ [][NextError]_vars

----------------------------------------------------------------------------
(* The thread pool (utils/thread_pool.cpp).  Each block the code runs with  *)
(* queue_mutex_ locked is one step; what it does after unlocking (the       *)
(* notify of enqueue and stop, the call of the task a worker has taken) is  *)
(* a step of its own.  condition_.wait(lock, pred) evaluates pred with the  *)
(* mutex held and blocks only when it is false.                             *)
(* Fields of pool beyond the members: notifyOne and notifyAll are the       *)
(* notify calls not yet made, accepted counts the tasks enqueued, refused   *)
(* tells that an enqueue has thrown,                                        *)
(* began lists the tasks in the order they were called, ended holds the     *)
(* tasks that have returned, atStop and asleepAtStop tell whether a task    *)
(* was queued and a worker blocked at the first stop(), waiter is the       *)
(* caller of wait().                                                        *)

Workers == DOMAIN pool.workers_

Blocked == {w \in Workers : pool.workers_[w].at = "blocked"}

\* ThreadPool::enqueue up to the unlock: throws when stop_ is set, else the
\* task joins the back of tasks_; tasks are numbered in the order accepted
Enqueue ==
    /\ pool.stop_ \/ pool.accepted < MaxJobs
    /\ pool' = IF pool.stop_
               THEN [pool EXCEPT !.refused = TRUE]
               ELSE [pool EXCEPT !.tasks_ = Append(@, pool.accepted + 1),
                                 !.accepted = @ + 1,
                                 !.notifyOne = @ + 1]
    /\ UNCHANGED nonPoolVars

\* condition_.notify_one() of enqueue: wakes one blocked worker, if any
NotifyOne ==
    /\ pool.notifyOne > 0
    /\ IF Blocked = {}
       THEN pool' = [pool EXCEPT !.notifyOne = @ - 1]
       ELSE \E w \in Blocked :
                pool' = [pool EXCEPT !.notifyOne = @ - 1,
                                     !.workers_[w].at = "check"]
    /\ UNCHANGED nonPoolVars

\* ThreadPool::stop up to the unlock (the destructor begins the same way)
PoolStop_silent ==
    /\ pool' = [pool EXCEPT !.stop_ = TRUE,
                            !.atStop = IF pool.stop_ THEN @ ELSE pool.tasks_ # <<>>,
                            !.asleepAtStop = IF pool.stop_ THEN @ ELSE Blocked # {}]
    /\ UNCHANGED nonPoolVars
PoolStop ==
    /\ pool' = [pool EXCEPT !.stop_ = TRUE,
                            !.notifyAll = TRUE,
                            !.atStop = IF pool.stop_ THEN @ ELSE pool.tasks_ # <<>>,
                            !.asleepAtStop = IF pool.stop_ THEN @ ELSE Blocked # {}]
    /\ UNCHANGED nonPoolVars

\* condition_.notify_all() of stop: wakes every blocked worker
NotifyAll ==
    /\ pool.notifyAll
    /\ pool' = [pool EXCEPT !.notifyAll = FALSE,
                            !.workers_ = [w \in Workers |->
                                IF w \in Blocked THEN Worker("check", 0) ELSE @[w]]]
    /\ UNCHANGED nonPoolVars

\* the worker loop with the mutex locked: it blocks while there is neither a
\* stop nor a task, returns when stopped with an empty queue, and else takes
\* the task at the front of tasks_
WorkerCheck_eager(w) ==
    /\ w \in Workers
    /\ pool.workers_[w].at = "check"
    /\ pool' = IF ~(pool.stop_ \/ pool.tasks_ # <<>>)
               THEN [pool EXCEPT !.workers_[w].at = "blocked"]
               ELSE IF pool.stop_
               THEN [pool EXCEPT !.workers_[w].at = "exited"]
               ELSE [pool EXCEPT !.workers_[w] = Worker("taken", Head(pool.tasks_)),
                                 !.tasks_ = Tail(@)]
    /\ UNCHANGED nonPoolVars
WorkerCheck(w) ==
    /\ w \in Workers
    /\ pool.workers_[w].at = "check"
    /\ pool' = IF ~(pool.stop_ \/ pool.tasks_ # <<>>)
               THEN [pool EXCEPT !.workers_[w].at = "blocked"]
               ELSE IF pool.stop_ /\ pool.tasks_ = <<>>
               THEN [pool EXCEPT !.workers_[w].at = "exited"]
               ELSE [pool EXCEPT !.workers_[w] = Worker("taken", Head(pool.tasks_)),
                                 !.tasks_ = Tail(@)]
    /\ UNCHANGED nonPoolVars

\* a wait on a condition variable may end without a notification
SpuriousWakeup(w) ==
    /\ w \in Workers
    /\ pool.workers_[w].at = "blocked"
    /\ pool' = [pool EXCEPT !.workers_[w].at = "check"]
    /\ UNCHANGED nonPoolVars

\* the worker, the mutex released, calls the task it has taken
WorkerCall(w) ==
    /\ w \in Workers
    /\ pool.workers_[w].at = "taken"
    /\ pool' = [pool EXCEPT !.workers_[w].at = "running",
                            !.began = Append(@, pool.workers_[w].task)]
    /\ UNCHANGED nonPoolVars

\* task() returns, or throws a std::exception the worker catches: the worker
\* goes round its loop
WorkerReturn(w) ==
    /\ w \in Workers
    /\ pool.workers_[w].at = "running"
    /\ pool' = [pool EXCEPT !.workers_[w] = Worker("check", 0),
                            !.ended = @ \cup {pool.workers_[w].task}]
    /\ UNCHANGED nonPoolVars

\* ThreadPool::wait is called: it joins the workers one after the other
Wait ==
    /\ pool.waiter = "none"
    /\ pool' = [pool EXCEPT !.waiter = "joining"]
    /\ UNCHANGED nonPoolVars

\* the last join returns once every worker has left its loop
WaitReturns ==
    /\ pool.waiter = "joining"
    /\ \A w \in Workers : pool.workers_[w].at = "exited"
    /\ pool' = [pool EXCEPT !.waiter = "returned"]
    /\ UNCHANGED nonPoolVars

InitPool ==
    /\ running = FALSE /\ initialized = FALSE
    /\ connected = FALSE /\ reading = FALSE
    /\ tools = {} /\ resources = {} /\ prompts = {}
    /\ pc = "none" /\ joining = FALSE /\ cur = NotJson
    /\ out = <<>> /\ last = NoCall /\ seen = FALSE /\ wireErr = FALSE /\ adv = {}
    /\ msg = ResponseDefault /\ calls = <<"Response()">>
    /\ wire = NoDecode
    /\ MCPClient_constructed
    /\ TaskEngine_created
    /\ Transport_unused
    /\ SseStream_unread
    /\ ErrorCode_unconverted
    /\ pool \in {ThreadPool(numThreads) : numThreads \in 1..MaxThreads}

NextPool ==
    \/ Enqueue
    \/ NotifyOne
    \/ PoolStop
    \/ NotifyAll
    \/ \E w \in 1..MaxThreads : WorkerCheck(w)
    \/ \E w \in 1..MaxThreads : SpuriousWakeup(w)
    \/ \E w \in 1..MaxThreads : WorkerCall(w)
    \/ \E w \in 1..MaxThreads : WorkerReturn(w)
    \/ Wait
    \/ WaitReturns

SpecPool == InitPool /\ [][NextPool]_vars

\* what worker w does next when it is not blocked
WorkerStep(w) == WorkerCheck(w) \/ WorkerCall(w) \/ WorkerReturn(w)

\* the scheduler lets every thread that can take a step take one: the
\* notify_all of stop() is made, a worker that can lock the mutex does, a
\* task returns, a join returns.  A blocked worker is woken by a notification
\* only.
FairPool ==
    /\ WF_vars(NotifyAll) /\ WF_vars(WaitReturns)
    /\ \A w \in 1..MaxThreads : WF_vars(WorkerStep(w))

SpecPoolFair == SpecPool /\ FairPool

----------------------------------------------------------------------------
(* Vocabulary of the claims *)

\* the envelope shapes of the wire, as JSON-RPC 2.0 defines them
IsEnvelope(line) == line.wf /\ line.v.t = "obj" /\ ~BadVersion(line.v)

IsRequestLine(line) ==
    /\ IsEnvelope(line)
    /\ Contains(line.v, "method") /\ At(line.v, "method").t = "str"
    /\ Contains(line.v, "id") /\ At(line.v, "id").t \in {"int", "str"}

IsNotificationLine(line) ==
    /\ IsEnvelope(line)
    /\ Contains(line.v, "method") /\ At(line.v, "method").t = "str"
    /\ ~Contains(line.v, "id")

MethodOf(line) == At(line.v, "method").s

\* the frames (not the log lines) among some lines of output
FramesOf(lines) == {i \in 1..Len(lines) : lines[i].k = "frame"}

\* the methods the protocol knows
KnownMethods == {"initialize", "ping", "tools/list", "tools/call", "resources/list",
                 "resources/read", "prompts/list", "prompts/get"}

\* exactly one frame was written, and it is an error response with this code
OneErrorFrame(lines, code) ==
    /\ Cardinality(FramesOf(lines)) = 1
    /\ \A i \in FramesOf(lines) :
         /\ Contains(lines[i].line.v, "error")
         /\ ~Contains(lines[i].line.v, "result")
         /\ At(At(lines[i].line.v, "error"), "code") = FromInt(code)

\* the frame carries this JSON value as its id
CarriesId(frame, id) == Contains(frame.line.v, "id") /\ At(frame.line.v, "id") = id

\* a request handled while the transport was connected
HandledRequest == last.called /\ last.live /\ IsRequestLine(last.line)

----------------------------------------------------------------------------
(* The claims *)

\* C1: every Request handled on an open transport produces exactly one Response
\* frame, and that frame carries the Request's id.
C1_OneResponseWithRequestId ==
    HandledRequest =>
        /\ Cardinality(FramesOf(last.lines)) = 1
        /\ \A i \in FramesOf(last.lines) :
             CarriesId(last.lines[i], At(last.line.v, "id"))

\* C2: while the session is not READY, every request other than initialize (and
\* other than ping once initialize has been received) is answered with -32600.
C2_NotReadyRejects ==
    (/\ HandledRequest
     /\ ~last.initialized
     /\ MethodOf(last.line) # "initialize"
     /\ ~(MethodOf(last.line) = "ping" /\ last.seen))
    => OneErrorFrame(last.lines, -32600)

\* C3: the session becomes READY exactly when notifications/initialized is received
\* after an initialize request: that notification makes it READY, and nothing else does.
C3_ReadyOnInitialized ==
    last.called =>
        /\ (/\ IsNotificationLine(last.line)
            /\ MethodOf(last.line) = "notifications/initialized"
            /\ last.seen) => last.ready
        /\ (last.ready /\ ~last.initialized) =>
              /\ IsNotificationLine(last.line)
              /\ MethodOf(last.line) = "notifications/initialized"
              /\ last.seen

\* C4: handling an inbound Notification writes no frame to the transport.
C4_NotificationWritesNoFrame ==
    (last.called /\ IsNotificationLine(last.line)) => FramesOf(last.lines) = {}

\* C5: a ping received after initialize and before notifications/initialized is
\* answered with a success Response carrying its id and an empty result object.
C5_PingWhileInitializing ==
    (/\ HandledRequest
     /\ MethodOf(last.line) = "ping"
     /\ last.seen /\ ~last.initialized)
    => /\ Cardinality(FramesOf(last.lines)) = 1
       /\ \A i \in FramesOf(last.lines) :
            /\ CarriesId(last.lines[i], At(last.line.v, "id"))
            /\ Contains(last.lines[i].line.v, "result")
            /\ At(last.lines[i].line.v, "result") = EmptyObject

\* C6: a Request with an unknown method is answered with an error Response that
\* carries the Request's id and code -32601, and handling it leaves the registries alone.
C6_UnknownMethod ==
    /\ [](( HandledRequest /\ MethodOf(last.line) \notin KnownMethods) =>
            /\ OneErrorFrame(last.lines, -32601)
            /\ \A i \in FramesOf(last.lines) :
                 CarriesId(last.lines[i], At(last.line.v, "id")))
    /\ [][(pc = "handling" /\ pc' = "loop" /\ IsRequestLine(cur)
           /\ MethodOf(cur) \notin KnownMethods)
          => UNCHANGED <<tools, resources, prompts>>]_vars

\* C7: a line that is not a JSON document is answered with exactly one frame
\* {jsonrpc: "2.0", id: null, error: {code: -32700}}.
C7_ParseErrorFrame ==
    (last.called /\ last.live /\ ~last.line.wf) =>
        /\ OneErrorFrame(last.lines, -32700)
        /\ \A i \in FramesOf(last.lines) : CarriesId(last.lines[i], JNull)

\* a wire error: a line that is no JSON document, or no valid envelope
WireError(line) == ~Request_deserialize(line).ok

\* C8: handling a wire error leaves the server running and the transport connected,
\* the read thread goes on to the next line, and a valid request that follows a
\* wire error on an open transport is answered with one Response.
C8_WireErrorKeepsSessionOpen ==
    /\ [][(pc = "handling" /\ pc' = "loop" /\ WireError(cur))
          => UNCHANGED <<running, connected, reading, initialized, tools,
                         resources, prompts, joining>>]_vars
    /\ []((HandledRequest /\ last.afterWireErr) =>
             Cardinality(FramesOf(last.lines)) = 1)

\* a valid request was answered right after a wire error, and the session is still open
C8_Witness ==
    /\ HandledRequest /\ last.afterWireErr
    /\ Cardinality(FramesOf(last.lines)) = 1
    /\ running /\ connected /\ reading /\ pc = "getline"

\* a valid envelope in memory: a Request has an int or string id, a Notification none
ValidEnvelope(m) ==
    CASE m.kind = "Request" -> m.id.has /\ m.id.v.t \in {"int", "str"}
      [] m.kind = "Response" -> TRUE
      [] m.kind = "Notification" -> ~m.id.has

\* the id of a message, an unset id counting as null
IdOf(m) == IF m.id.has THEN m.id.v ELSE IdNull

SameEnvelope(a, b) ==
    /\ a.kind = b.kind
    /\ IdOf(a) = IdOf(b)
    /\ a.kind \in {"Request", "Notification"} =>
          a.method = b.method /\ a.params = b.params
    /\ a.kind = "Response" =>
          /\ a.error.has = b.error.has
          /\ a.error.has => a.error.v.code = b.error.v.code
          /\ ~a.error.has => a.result = b.result

\* C9: decoding the encoding of a valid envelope yields an equal envelope.
C9_RoundTrip ==
    ValidEnvelope(msg) =>
        LET d == Deserialize(msg.kind, Serialize(msg))
        IN d.ok /\ SameEnvelope(d.v, msg)

\* C10: the encoded form of a Response contains exactly one of the members
\* result and error, whatever constructor and setters produced it.
C10_ResultXorError ==
    msg.kind = "Response" =>
        LET o == Response_serialize(msg).v
        IN Contains(o, "result") # Contains(o, "error")

\* a Response built with a result and then given an error: both are stored
C10_Witness ==
    /\ msg.kind = "Response"
    /\ calls = <<"Response(id,result)", "setError">>
    /\ msg.error.has /\ msg.result = EmptyObject
    /\ Contains(Response_serialize(msg).v, "error")

\* the document is an envelope but for its id: the version is 2.0 and the members
\* its kind requires are there (a method; exactly one of result and error)
ShapedAs(kind, line) ==
    /\ IsEnvelope(line)
    /\ kind = "Request" =>
          Contains(line.v, "method") /\ At(line.v, "method").t = "str"
    /\ kind = "Response" =>
          Contains(line.v, "result") # Contains(line.v, "error")

\* C11: decoding a Response document that contains both a result member and an
\* error member is rejected: Response::deserialize returns no envelope for it.
C11_BothResultAndErrorRejected ==
    (/\ wire.kind = "Response"
     /\ IsEnvelope(wire.line)
     /\ Contains(wire.line.v, "result") /\ Contains(wire.line.v, "error"))
    => ~wire.res.ok

\* C12: a Request or Response document whose id is not a string, an integer or
\* null is rejected; a string or integer id is accepted in both, and a null id
\* is accepted in a Response.
C12_IdTypes ==
    (/\ wire.kind \in {"Request", "Response"}
     /\ ShapedAs(wire.kind, wire.line)
     /\ Contains(wire.line.v, "id"))
    => LET t == At(wire.line.v, "id").t IN
       /\ t \notin {"str", "int", "null"} => ~wire.res.ok
       /\ t \in {"str", "int"} => wire.res.ok
       /\ (t = "null" /\ wire.kind = "Response") => wire.res.ok

\* C13: the server passes every inbound frame to the handler of its envelope
\* shape: a frame with a method and an id to the request handler, a frame with a
\* method and no id to the notification handler and never to the request
\* handler, and a frame of any other shape to neither.
C13_HandledByShape ==
    last.called =>
        LET route == handleMessage_route(last.line) IN
        /\ IsRequestLine(last.line) => route = "handleRequest"
        /\ IsNotificationLine(last.line) => route = "handleNotification"
        /\ (~IsRequestLine(last.line) /\ ~IsNotificationLine(last.line))
              => route = "rejected"

\* C14: an integer id that is decoded and encoded again is written as the same
\* JSON integer, not as a float, a string or another number.
C14_IntegerIdRoundTrip ==
    (/\ wire.kind \in {"Request", "Response"}
     /\ wire.res.ok /\ wire.out.has
     /\ Contains(wire.line.v, "id") /\ At(wire.line.v, "id").t = "int")
    => /\ Contains(wire.out.v.v, "id")
       /\ At(wire.out.v.v, "id") = At(wire.line.v, "id")

\* the line is a Response document with an id member
IsResponseLine(line) ==
    /\ IsEnvelope(line)
    /\ Contains(line.v, "result") # Contains(line.v, "error")
    /\ ~Contains(line.v, "method")
    /\ Contains(line.v, "id")

\* the Response document carries the id of handle h's request
Matches(line, h) ==
    /\ IsResponseLine(line)
    /\ handles[h].id.t = "int"
    /\ At(line.v, "id") = FromInt(handles[h].id.n)

\* sendRequest has returned the future of handle h
FutureReturned(h) == \A t \in Callers : Resting(t) \/ snd[t].h # h

\* handle h is an outbound request in flight: sent, and not completed
InFlight(h) == handles[h].state = "waiting" /\ FutureReturned(h)

\* the read thread has handled the line rcur (and the process was not terminated)
ClientHandled == rpc = "handling" /\ rpc' = "loop"

\* C15: the handle of an outbound request is completed exactly once: handling its
\* matching Response completes it and removes its pending entry, a failed send
\* completes it and removes its pending entry, and a completed handle never
\* changes again, whatever the interleaving of the callers and the read thread.
C15_CompletedExactlyOnce ==
    /\ [][ClientHandled =>
            \A h \in DOMAIN handles :
                (Matches(rcur, h) /\ InFlight(h)) =>
                    /\ handles'[h].state = "value"
                    /\ handles[h].id \notin DOMAIN pending']_vars
    /\ [][\A t \in Callers :
            (snd[t].pc = "erase" /\ snd'[t].pc = "idle" /\ ~crashed'
             /\ handles[snd[t].h].state = "waiting") =>
                /\ handles'[snd[t].h].state = "exception"
                /\ handles[snd[t].h].id \notin DOMAIN pending']_vars
    /\ [][\A h \in DOMAIN handles :
            handles[h].state # "waiting" => handles'[h] = handles[h]]_vars

\* C16: handling a Response whose id is the id of no in-flight request writes no
\* frame, completes no handle, and leaves the pending entry of every waiting
\* request in place.
C16_UnmatchedResponseDropped ==
    [][(/\ ClientHandled
        /\ IsResponseLine(rcur)
        /\ \A h \in DOMAIN handles : handles[h].state = "waiting" => ~Matches(rcur, h))
       => /\ FramesOf(cout') = {}
          /\ handles' = handles
          /\ \A h \in DOMAIN handles :
                (handles[h].state = "waiting" /\ handles[h].id \in DOMAIN pending)
                    => handles[h].id \in DOMAIN pending']_vars

\* C17: no two outbound requests that wait for their Response have the same id,
\* also while several threads are inside sendRequest.
C17_UniqueInFlightIds ==
    \A g, h \in DOMAIN handles :
        (g # h /\ handles[g].state = "waiting" /\ handles[h].state = "waiting")
            => handles[g].id # handles[h].id

\* two threads are inside sendRequest at once, each with a request of its own
C17_Witness ==
    /\ \A t \in Callers : snd[t].pc = "insert"
    /\ snd["t1"].h # snd["t2"].h
    /\ \A t \in Callers : handles[snd[t].h].state = "waiting"

\* the client's session is closed: disconnect() has returned, the read thread has
\* ended, and no caller is inside sendRequest
ClientClosed ==
    /\ ~crashed /\ ~cconn /\ ~cjoin /\ rpc = "none"
    /\ \A t \in Callers : Resting(t)
    /\ counter > 0

\* C18: once the session is closed, pending_requests_ is empty.
C18_PendingEmptyWhenClosed == ClientClosed => DOMAIN pending = {}

\* C19: when the transport closes, every request still pending is completed:
\* by the time disconnect() has returned and no thread of the client is left
\* to complete a handle, no handle waits any more.
C19_PendingFailedOnClose ==
    ClientClosed => \A h \in DOMAIN handles : handles[h].state # "waiting"

\* the responses the pump holds for Task k
ResponsesOf(k) == {i \in 1..Len(pump) : pump[i].task = k}

\* C20: a notifications/cancelled that names an active Task makes that Task's
\* cancellation observer true at once, and it stays true; every Task gets at
\* most one response, a finished Task exactly one, and that response is
\* REQUEST_CANCELLED (-32800) exactly when the Task ended as Cancelled.
C20_CancellationObserved ==
    /\ [][\A id \in TaskIds :
            (note'.n # note.n /\ note'.id = id /\ id \in DOMAIN inboundActive)
                => ProcessRequest_IsCancelled(tasks'[inboundActive[id]])]_vars
    /\ [][\A k \in DOMAIN tasks :
            ProcessRequest_IsCancelled(tasks[k])
                => ProcessRequest_IsCancelled(tasks'[k])]_vars
    /\ [](\A k \in DOMAIN tasks :
            /\ Cardinality(ResponsesOf(k)) <= 1
            /\ ProcessRequest_IsFinished(tasks[k]) <=> ResponsesOf(k) # {}
            /\ \A i \in ResponsesOf(k) :
                 /\ pump[i].id = tasks[k].id
                 /\ (pump[i].code = -32800) <=> (tasks[k].state = "Cancelled")
                 /\ pump[i].code = -32800 => ProcessRequest_IsCancelled(tasks[k]))

\* one cancelled Task was answered with -32800, and another Task that was
\* cancelled while active completed first and was answered with its result
C20_Witness ==
    /\ \E k \in DOMAIN tasks :
         /\ tasks[k].state = "Cancelled"
         /\ \E i \in ResponsesOf(k) : pump[i].code = -32800
    /\ \E k \in DOMAIN tasks :
         /\ tasks[k].state = "Succeeded" /\ ProcessRequest_IsCancelled(tasks[k])
         /\ \E i \in ResponsesOf(k) : pump[i].code = 0
    /\ note.n > 0 /\ note.active

\* C21: a notifications/cancelled naming an id that is not in InboundActive is
\* silently ignored.  The server handles each request to completion on its read
\* thread, so no id is ever in flight when the notification is handled: nothing
\* may be written for it and the session state stays as it was.
C21_UnknownCancelIgnored ==
    (/\ last.called
     /\ IsNotificationLine(last.line)
     /\ MethodOf(last.line) = "notifications/cancelled")
    => /\ last.lines = <<>>
       /\ last.ready = last.initialized

\* a step of the dispatcher that rejects a Request: the pump gains a Response
\* that no Task produced
Rejects(id) ==
    /\ Len(pump') = Len(pump) + 1
    /\ pump'[Len(pump')].task = 0
    /\ pump'[Len(pump')].id = id

\* a Task that is active and has been taken by a worker
RunningWith(id) ==
    /\ id \in DOMAIN inboundActive
    /\ tasks[inboundActive[id]].state = "Running"

C23_SendAfterCloseFails ==
    (tlast.op = "write" /\ tlast.before.closed) =>
        ~tlast.ok /\ tlast.delivered = <<>>

\* the transport as its caller finds it, the history field left out
Observed(t) == [t EXCEPT !.closed = FALSE]

\* C24: disconnect leaves the transport not connected whatever state it is
\* called in, and a call on a transport that was never connected or is already
\* closed changes nothing and returns without waiting for a thread
C24_CloseIdempotent ==
    tlast.op = "disconnect" =>
        /\ ~Transport_isConnected(tlast.after)
        /\ (tlast.before.closed \/ tlast.before = Transport(tlast.before.variant)) =>
              /\ Observed(tlast.after) = Observed(tlast.before)
              /\ ~tlast.after.joining

\* disconnect called again on a StdioTransport whose first disconnect has
\* returned
C24_Witness ==
    /\ tlast.op = "disconnect"
    /\ tlast.before.closed
    /\ tlast.before.variant = "StdioTransport"
    /\ ~tp.joining

\* C25: when the read thread of a StdioTransport meets the end of stdin, the
\* session is told through a callback and the transport no longer reports
\* itself connected
C25_EofSignalsClose ==
    (tlast.op = "eof" /\ tlast.before.variant = "StdioTransport") =>
        /\ tlast.callbacks # <<>>
        /\ ~Transport_isConnected(tlast.after)

\* C26: every line on the stdio transport's output stream is one whole JSON
\* frame; nothing else, such as log text, is written to that stream
C26_OnlyFramesOnStdout ==
    \A i \in 1..Len(out) : out[i].k = "frame" /\ out[i].line.wf

\* the payloads of the events on the stream, in order
PayloadsOf(events) == [i \in 1..Len(events) |-> events[i].payload]

\* C27: however the SSE byte stream is cut into chunks, once it has been
\* received each event's payload has been delivered as exactly one frame equal
\* to it, id fields changing nothing
C27_SseFramesEqualPayloads ==
    sse.pos = Len(sse.stream) => sse.frames = PayloadsOf(sse.events)

\* the protocolVersion an initialize request offers
OfferedVersion(line) == At(At(line.v, "params"), "protocolVersion").s

\* C28: an initialize request is answered with the highest protocolVersion that
\* client and server both support, and with an error when they share none.
\* The server speaks PROTOCOL_VERSION only, the client the revision it offers.
C28_VersionNegotiated ==
    (/\ HandledRequest
     /\ MethodOf(last.line) = "initialize"
     /\ Contains(last.line.v, "params")
     /\ Contains(At(last.line.v, "params"), "protocolVersion"))
    => /\ Cardinality(FramesOf(last.lines)) = 1
       /\ \A i \in FramesOf(last.lines) :
            LET frame == last.lines[i].line.v IN
            IF OfferedVersion(last.line) = PROTOCOL_VERSION
            THEN /\ Contains(frame, "result")
                 /\ At(At(frame, "result"), "protocolVersion") = JStr(PROTOCOL_VERSION)
            ELSE /\ Contains(frame, "error")
                 /\ ~Contains(frame, "result")

\* C29: for every error code constant of the module, errorCodeFromInt gives the
\* ErrorCode of that value and errorCodeToInt gives the same integer back
C29_ErrorCodeRoundTrip ==
    (ec.n \in ErrorConstants) =>
        /\ ec.stage # "int" => ErrorCodeValue(ec.code) = ec.n
        /\ ec.stage = "back" => ec.back = ec.n

\* the code of an error frame is one of a protocol-level failure: no such
\* tool, or a violation of the parameters
ProtocolFailure(frame) ==
    /\ Contains(frame, "error")
    /\ At(At(frame, "error"), "code") \in {FromInt(-32601), FromInt(-32602)}

\* C30: a tools/call whose tool reports an error of its own is answered with a
\* success Response whose result has isError = true; an error envelope answers
\* it only when the failure is one of the protocol
C30_ToolErrorIsResult ==
    (HandledRequest /\ MethodOf(last.line) = "tools/call" /\ last.h = "fails")
    => /\ Cardinality(FramesOf(last.lines)) = 1
       /\ \A i \in FramesOf(last.lines) :
            LET frame == last.lines[i].line.v IN
            \/ ProtocolFailure(frame)
            \/ /\ Contains(frame, "result")
               /\ ~Contains(frame, "error")
               /\ Contains(At(frame, "result"), "isError")
               /\ At(At(frame, "result"), "isError") = JBool(TRUE)

\* the capability a method belongs to
FamilyOf(method) ==
    CASE method \in {"tools/list", "tools/call"} -> "tools"
      [] method \in {"resources/list", "resources/read"} -> "resources"
      [] method \in {"prompts/list", "prompts/get"} -> "prompts"
      [] OTHER -> "none"

\* C31: after the handshake only the capabilities that client and server both
\* advertised are operational: a request of a capability's methods is served
\* with a result only if that capability is in the intersection
C31_OperationalIsIntersection ==
    (/\ HandledRequest
     /\ last.seen
     /\ FamilyOf(MethodOf(last.line)) # "none"
     /\ \E i \in FramesOf(last.lines) : Contains(last.lines[i].line.v, "result"))
    => FamilyOf(MethodOf(last.line)) \in last.adv

\* the step enqueues the terminal Response of Task k
Enqueues(k) ==
    /\ Len(pump') = Len(pump) + 1
    /\ pump'[Len(pump')].task = k

\* C32: when a cancellation and a completion of one Task race, the completion
\* wins if its Response was enqueued on the pump before the cancellation
\* arrived (the Response stays, the outcome stays, nothing more is sent), and
\* the cancellation wins otherwise (the Response enqueued is -32800); in
\* every interleaving exactly one of the two outcomes is sent.
C32_CancelCompletionRace ==
    /\ [][\A k \in DOMAIN tasks :
            Enqueues(k) =>
                /\ ~ProcessRequest_IsFinished(tasks[k])
                /\ (pump'[Len(pump')].code = -32800)
                       <=> ProcessRequest_IsCancelled(tasks[k])]_vars
    /\ [][/\ Len(pump') >= Len(pump)
          /\ SubSeq(pump', 1, Len(pump)) = pump
          /\ \A k \in DOMAIN tasks :
                ProcessRequest_IsFinished(tasks[k])
                    => /\ tasks'[k].state = tasks[k].state
                       /\ ~Enqueues(k)]_vars
    /\ [](\A k \in DOMAIN tasks :
            ProcessRequest_IsFinished(tasks[k])
                => \E i \in ResponsesOf(k) :
                     /\ ResponsesOf(k) = {i}
                     /\ pump[i].code \in {0, -32603, -32800})

\* a cancellation reached a Task between the enqueueing of its result and its
\* removal from InboundActive, and the result stood; another Task, cancelled
\* before it had enqueued anything, was answered with -32800
C32_Witness ==
    /\ \E k \in DOMAIN tasks :
         /\ tasks[k].state = "Succeeded"
         /\ ProcessRequest_IsCancelled(tasks[k])
         /\ note.active /\ note.id = tasks[k].id
         /\ tasks[k].id \in DOMAIN inboundActive
         /\ \E i \in ResponsesOf(k) : pump[i].code = 0
    /\ \E k \in DOMAIN tasks :
         /\ tasks[k].state = "Cancelled"
         /\ \E i \in ResponsesOf(k) : pump[i].code = -32800

\* the read thread holds a line it has observed and not yet delivered
Undelivered == pc = "handling"

\* the step delivers the held line to the Router, and what the handler emits
\* for it is what the transport receives, in the order emitted
Delivers ==
    /\ pc' = "loop"
    /\ last'.called /\ last'.line = cur
    /\ out' = last'.lines

C34_StartOrder ==
    /\ \A i, j \in 1..Len(pool.began) : i < j => pool.began[i] < pool.began[j]
    /\ \A i \in 1..Len(pool.began) : pool.began[i] = i

\* caller t performs its access to pending_requests_ in this step
SenderAccesses(t) == SenderAtMap(t) /\ snd'[t].pc # snd[t].pc

\* the read thread performs its access to pending_requests_ in this step
ReaderAccesses == ReaderAtMap /\ (rpc' # rpc \/ crashed')

\* C35: every access to the map of pending requests is made with the session
\* mutex held, so that an access never coincides with another thread's: when
\* a thread performs its access no other thread is at one, and no access
\* ends the process.
C35_MapAccessGuarded ==
    /\ [][\A t \in Callers :
            SenderAccesses(t)
                => /\ ~ReaderAtMap
                   /\ \A u \in Callers \ {t} : ~SenderAtMap(u)]_vars
    /\ [][ReaderAccesses => \A u \in Callers : ~SenderAtMap(u)]_vars
    /\ []~crashed

\* a required member of params is missing or is not a string
Lacks(params, k) == ~Contains(params, k) \/ At(params, k).t # "str"

\* the params do not match what the method's handler requires
SchemaMismatch(method, params) ==
    \/ /\ method = "initialize"
       /\ \/ ~Contains(params, "clientInfo")
          \/ Lacks(At(params, "clientInfo"), "name")
          \/ Lacks(At(params, "clientInfo"), "version")
    \/ method = "tools/call" /\ Lacks(params, "name")
    \/ method = "resources/read" /\ Lacks(params, "uri")

\* C36: a request whose params do not match the schema of its handler (a
\* required member is missing or has the wrong type) is answered with one
\* error Response of code -32602 (INVALID_PARAMS).
C36_MismatchIsInvalidParams ==
    (/\ HandledRequest
     /\ SchemaMismatch(MethodOf(last.line), Request_deserialize(last.line).v.params))
    => OneErrorFrame(last.lines, -32602)

\* the session that handled the latest message had answered an initialize,
\* and the transport has been closed and opened again since: the session of
\* now has answered none
Reopened ==
    /\ last.called
    /\ last.seen \/ AnswersInitialize(last.line, last.lines)
    /\ ~seen

\* C37: session state does not outlive the transport: in a session opened
\* after a stop the server is not READY, and until an initialize has been
\* answered in it no request for another method is accepted (none is answered
\* with a result).
C37_SessionEndsWithTransport ==
    /\ [](Reopened => ~initialized)
    /\ [][(/\ Reopened
           /\ pc = "handling" /\ pc' = "loop"
           /\ IsRequestLine(cur) /\ MethodOf(cur) # "initialize")
          => \A i \in FramesOf(out') : ~Contains(out'[i].line.v, "result")]_vars

\* caller t, outside the client before, makes a call in this step
Calls(t) == Resting(t) /\ snd'[t] # snd[t]

AllExited == \A w \in Workers : pool.workers_[w].at = "exited"

\* the calls made of task j so far
CallsOf(j) == {i \in 1..Len(pool.began) : pool.began[i] = j}

\* C39: a task the pool has accepted is called at most once, only accepted
\* tasks are called, and when the workers have all left their loops every
\* accepted task has been called and has returned, those that were still in
\* the queue when stop() was called included.
C39_AcceptedRunOnce ==
    /\ \A j \in 1..MaxJobs : Cardinality(CallsOf(j)) <= 1
    /\ \A i \in 1..Len(pool.began) : pool.began[i] \in 1..pool.accepted
    /\ AllExited => \A j \in 1..pool.accepted :
                        Cardinality(CallsOf(j)) = 1 /\ j \in pool.ended

\* stop() came while a task was still in the queue and a later enqueue was
\* refused; the workers have left their loops after running every task
C39_Witness ==
    /\ AllExited
    /\ pool.atStop
    /\ pool.accepted = MaxJobs /\ pool.ended = 1..MaxJobs
    /\ pool.refused

\* C40: once stop() has been called every worker leaves its loop, so that a
\* wait() in progress returns; when the notify_all of stop() has been made no
\* worker is blocked on the condition variable, and none blocks afterwards.
C40_StopEndsWorkers ==
    /\ pool.stop_ ~> AllExited
    /\ (pool.stop_ /\ pool.waiter = "joining") ~> (pool.waiter = "returned")
    /\ []((pool.stop_ /\ ~pool.notifyAll) => Blocked = {})

\* wait() has returned on a pool that had a worker blocked on the condition
\* variable and a task in its queue when stop() was called
C40_Witness ==
    /\ pool.waiter = "returned"
    /\ pool.asleepAtStop
    /\ pool.accepted > 0
====
